---- MODULE Spec2Model ----
(***************************************************************************)
(* Tiered read-through cache of eldisco-mongodb-models:                    *)
(*   MemoryCache      (src/src/services/BaseCache.ts, class MemoryCache)   *)
(*   RedisCache       (src/src/services/BaseCache.ts, class RedisCache)    *)
(*   BaseCacheService (src/src/services/BaseCache.ts)                      *)
(*   read-through     (src/unnamed/part_001 ProductService.getAllProducts, *)
(*                     src/src/services/CatalogService.ts getCategories)   *)
(*   hooks            (src/src/services/CacheManager.ts)                   *)
(*                                                                         *)
(* Time is Date.now() in milliseconds.  A Date is modelled by its          *)
(* millisecond value; an absent Date (undefined / null document) is NoDate.*)
(***************************************************************************)
EXTENDS Integers, Sequences, FiniteSets, TLC

(***************************************************************************)
(* Bounds of the model.                                                    *)
(***************************************************************************)
MaxTicks == 2          \* how often the clock advances
MaxCap == 2            \* largest configured maxSize tried
MaxSets == 3           \* MemoryCache.set calls made in one run of the MemoryCache
MaxMutations == 1      \* mutations of the source collection in one run
NumDocs == 1           \* documents the source collection can hold
MaxRequests == 2       \* read-through requests started in one run
MaxCalls == 3          \* cache operations called in one run of the cache services
MaxManagers == 3       \* CacheManager objects constructed in one run
NumCallers == 3        \* callers of CacheManager.getInstance / configure
NumNotes == 3          \* documents saved to a numbered collection in one run
NumProducts == 2       \* products saved in one run

(***************************************************************************)
(* Program constants.                                                      *)
(***************************************************************************)
MsPerSecond == 1000    \* expires = Date.now() + (ttl * 1000)
TtlSeconds == 1        \* config.ttl, in seconds
DefaultTtl == 3600     \* ttl: 3600, the default of config.ttl
QueryTtl == 900        \* "shorter TTL for queries (15 minutes)"
SearchTtl == 600       \* "shorter TTL (10 minutes)" of the search results
StatsTtl == 1800       \* "moderate TTL (30 minutes)" of the statistics

TickMs == MsPerSecond  \* the clock advances in steps of one second

NoDate == -1           \* lastModified?: Date left undefined

VARIABLES
  now,        \* Date.now()
  maxSize,    \* MemoryCache.maxSize
  mem,        \* MemoryCache.cache: a Map, i.e. entries in insertion order
  last,       \* the MemoryCache call made last and what it returned
  sets,       \* number of MemoryCache.set calls made so far
  enabled,    \* BaseCacheService.config.enabled
  redisOn,    \* this.redisCache?.isAvailable()
  redis,      \* the remote store: what it holds under the service's key
  auto,       \* CacheManager.config.autoInvalidate
  docs,       \* the source collection: updatedAt of each document, NoDate if none
  srcVer,     \* the content of the source collection (counts its mutations)
  hook,       \* where the post hook of the latest mutation stands
  doneVer,    \* content as of the latest mutation that has completed
  reqs,       \* number of read-through requests started so far
  pc,         \* where each read-through request stands
  cached,     \* its `cached` (what getCache returned)
  latest,     \* its `latestProduct?.updatedAt`
  fetched,    \* its `transformedProducts`
  result,     \* what it returned
  needVer,    \* content as of the mutations completed when it started
  settled,    \* the key was written by a read-through and nothing disturbed it since
  prim,       \* memoryCache of each service of the CacheManager
  sec,        \* the remote store shared by the services, key by key
  ref,        \* a MemoryCache alone, given the same calls as the product service
  pend,       \* remote calls in flight
  answer,     \* what the cache operation that returned last returned
  issued,     \* number of cache operations called so far
  models,     \* for each entity: how its model and its hook API load
  hooks,      \* the entities whose post hooks are registered
  rq,         \* the read-through request of the sales service
  mgrEnabled, \* CacheManager.config.enabled
  redisCfg,   \* whether the services were given a redisConfig
  stats,      \* what getCacheStats returned last
  instance,   \* CacheManager.instance (0: undefined)
  made,       \* number of CacheManager objects constructed so far
  got,        \* the CacheManager each caller obtained last (0: none yet)
  cfgTtl,     \* BaseCacheService.config.ttl, in seconds
  notes,      \* a numbered collection (sales notes or service requests)
  prods,      \* the products collection, as the barcode check sees it
  db,         \* the DatabaseConnection singleton and the mongoose connection
  gen,        \* the products collection, as the codigoInterno hook sees it
  fleet       \* every CacheManager constructed so far and the hooks on Product.schema

memVars == <<maxSize, mem, last, sets>>
mgrVars == <<prim, sec, ref, pend, answer, issued, models, hooks, rq>>
lateVars == <<db, gen, fleet>>
extVars == <<mgrEnabled, redisCfg, stats, instance, made, got, cfgTtl, notes, prods,
             lateVars>>
cfgVars == <<enabled, redisOn, auto, mgrVars, extVars>>
srcVars == <<docs, srcVer, hook, doneVer>>
reqVars == <<reqs, pc, cached, latest, fetched, result, needVer>>
svcVars == <<enabled, redisOn, redis, auto, docs, srcVer, hook, doneVer, reqs,
             pc, cached, latest, fetched, result, needVer, settled, mgrVars,
             extVars>>
vars == <<now, maxSize, mem, last, sets, svcVars>>

(***************************************************************************)
(* Values.  A cached value is a query result: ver identifies the content   *)
(* of the collection it was computed from, json tells whether it has been  *)
(* through JSON.stringify / JSON.parse (Date and ObjectId fields of lean   *)
(* documents come back as strings).  Null is JavaScript's null.            *)
(***************************************************************************)
Null == [ver |-> -1, json |-> FALSE]
Value(v) == [ver |-> v, json |-> FALSE]

\* JSON.parse(JSON.stringify(d)): null stays null, a result's Dates become strings
Json(d) == IF d.ver = -1 THEN d ELSE [d EXCEPT !.json = TRUE]

\* the remote store holds nothing under a key
NoEntry == [data |-> Null, expires |-> 0]

Keys == {"", "a", "b", "c"}

(***************************************************************************)
(* The services of the CacheManager, the entities whose mutations it       *)
(* hooks, and the cache keys the services use.  A key is a string; Parts   *)
(* gives its colon-separated segments, "*" being the glob of a pattern.    *)
(***************************************************************************)
Svcs == {"product", "catalog", "sales"}
Entities == {"Product", "Category", "Brand", "Supplier", "Especificacion",
             "SalesNote", "ServiceRequest"}

ProductKeys == {"products:all", "products:low-stock", "products:query:e30=",
                "products:search:tv:20", "catalog:data"}
CatalogKeys == {"catalog:categories", "catalog:brands", "catalog:suppliers",
                "catalog:specs:c1", "catalog:full",
                "catalog:categories-with-products"}
SalesKeys == {"sales:recent:50", "sales:stats", "service:stats", "service:recent:20"}
KeysOfSvc(s) ==
  CASE s = "product" -> ProductKeys
    [] s = "catalog" -> CatalogKeys
    [] s = "sales" -> SalesKeys
AllKeys == ProductKeys \cup CatalogKeys \cup SalesKeys

Patterns == {"products:query:*", "products:search:*", "catalog:specs:*",
             "sales:recent:*", "service:recent:*"}

Parts(k) ==
  CASE k = "products:all" -> <<"products", "all">>
    [] k = "products:low-stock" -> <<"products", "low-stock">>
    [] k = "products:query:e30=" -> <<"products", "query", "e30=">>
    [] k = "products:search:tv:20" -> <<"products", "search", "tv", "20">>
    [] k = "catalog:data" -> <<"catalog", "data">>
    [] k = "catalog:categories" -> <<"catalog", "categories">>
    [] k = "catalog:brands" -> <<"catalog", "brands">>
    [] k = "catalog:suppliers" -> <<"catalog", "suppliers">>
    [] k = "catalog:specs:c1" -> <<"catalog", "specs", "c1">>
    [] k = "catalog:full" -> <<"catalog", "full">>
    [] k = "catalog:categories-with-products" ->
         <<"catalog", "categories-with-products">>
    [] k = "sales:recent:50" -> <<"sales", "recent", "50">>
    [] k = "sales:stats" -> <<"sales", "stats">>
    [] k = "service:stats" -> <<"service", "stats">>
    [] k = "service:recent:20" -> <<"service", "recent", "20">>
    [] k = "products:query:*" -> <<"products", "query", "*">>
    [] k = "products:search:*" -> <<"products", "search", "*">>
    [] k = "catalog:specs:*" -> <<"catalog", "specs", "*">>
    [] k = "sales:recent:*" -> <<"sales", "recent", "*">>
    [] k = "service:recent:*" -> <<"service", "recent", "*">>

\* redis KEYS pattern: a trailing * stands for any rest of the key
Matches(pat, k) ==
  LET P == Parts(pat)
      Q == Parts(k)
      n == Len(P)
  IN IF P[n] = "*"
       THEN Len(Q) >= n /\ \A i \in 1..(n - 1) : P[i] = Q[i]
       ELSE P = Q

\* no cache operation has returned yet
NoRet == [op |-> "none", key |-> "", val |-> Null, want |-> Null,
          err |-> FALSE, logged |-> FALSE]

\* no read-through of the sales service is in progress
NoRq == [pc |-> "idle", cached |-> Null, out |-> Null, failed |-> FALSE,
         primWas |-> <<>>, secWas |-> NoEntry]

\* the services of the CacheManager are not constructed
MgrUnused ==
  /\ prim = [s \in Svcs |-> <<>>]
  /\ sec = [k \in AllKeys |-> NoEntry]
  /\ ref = <<>>
  /\ pend = {}
  /\ answer = NoRet
  /\ issued = 0
  /\ models = [e \in Entities |-> "ok"]
  /\ hooks = {}
  /\ rq = NoRq

(***************************************************************************)
(* The rest of the package: the CacheManager singleton and its switches,   *)
(* getCacheStats, and the collections whose pre('save') hooks number the   *)
(* documents and check the barcodes.                                       *)
(***************************************************************************)
Times == {i * TickMs : i \in 0..MaxTicks}
Procs == {1, 2}
Docs == 1..NumDocs
Callers == 1..NumCallers
NoteIds == 1..NumNotes
ProductIds == 1..NumProducts

\* getCacheStats has not been called
NoStats == [svc |-> "", size |-> 0, maxSize |-> 0, redis |-> FALSE]

\* the empty string, as a number of a document
NoNumber == [prefix |-> "", digits |-> <<>>]

\* a document nobody has saved yet: numeroComprobante / ticketId not given
NewNote == [pc |-> "new", createdAt |-> NoDate, number |-> NoNumber,
            fellBack |-> FALSE]
NoNotes == [kind |-> "SalesNote", doc |-> [d \in NoteIds |-> NewNote]]

\* a product nobody has saved yet, with no barcode
NewProduct == [pc |-> "new", codigoBarras |-> "", codigosBarras |-> <<>>,
               checked |-> 0]
NoProds == [p \in ProductIds |-> NewProduct]

ToggleUnused == mgrEnabled = enabled
AvailUnused == redisCfg = redisOn /\ stats = NoStats
InstUnused == instance = 0 /\ made = 0 /\ got = [c \in Callers |-> 0]
TtlUnused == cfgTtl = TtlSeconds
NotesUnused == notes = NoNotes
ProdsUnused == prods = NoProds

\* the DatabaseConnection before any call: isConnected = false, nothing in
\* flight, the mongoose connection down and without listeners
NoDb == [isConnected |-> FALSE,
         pc |-> [p \in Procs |-> "idle"],
         out |-> [p \in Procs |-> "none"],
         started |-> 0, up |-> FALSE, listeners |-> 0, established |-> 0]
DbUnused == db = NoDb

\* a product nobody has saved yet, without codigoInterno, and a collection
\* without products
NoGen == [doc |-> [p \in ProductIds |->
                     [pc |-> "new", codigoInterno |-> "", attempts |-> 0]],
          taken |-> {}]
GenUnused == gen = NoGen

\* no CacheManager constructed, no hook on the schema, no mutation yet
ManagerIds == 1..MaxManagers
NoFleet == [mgr |-> [m \in ManagerIds |-> [auto |-> FALSE, warm |-> FALSE, invs |-> 0]],
            regs |-> <<>>,
            events |-> 0]
FleetUnused == fleet = NoFleet
LateUnused == DbUnused /\ GenUnused /\ FleetUnused
ExtUnusedButLate ==
  /\ ToggleUnused /\ AvailUnused /\ InstUnused /\ TtlUnused
  /\ NotesUnused /\ ProdsUnused
ExtUnused == ExtUnusedButLate /\ LateUnused


(***************************************************************************)
(* MemoryCache                                                             *)
(***************************************************************************)
KeysOf(m) == {m[i].key : i \in 1..Len(m)}
Has(m, k) == k \in KeysOf(m)
IndexOf(m, k) == CHOOSE i \in 1..Len(m) : m[i].key = k
EntryOf(m, k) == m[IndexOf(m, k)]

\* Map.prototype.delete: removes the entry, the others keep their order
MapDelete(m, k) == SelectSeq(m, LAMBDA e : e.key # k)

\* Map.prototype.set: an existing key keeps its position, a new key goes last
MapSet(m, e) ==
  IF Has(m, e.key)
    THEN [i \in 1..Len(m) |-> IF m[i].key = e.key THEN e ELSE m[i]]
    ELSE Append(m, e)

\* JavaScript truthiness of `firstKey`: undefined and "" are falsy
Truthy(k) == k # ""

\* if (this.cache.size >= this.maxSize) { firstKey = keys().next().value;
\*                                        if (firstKey) delete(firstKey) }
Evict(m, max) ==
  IF Len(m) >= max
    THEN IF Len(m) > 0 /\ Truthy(m[1].key) THEN MapDelete(m, m[1].key) ELSE m
    ELSE m

\* (variant: the ttl taken as milliseconds)
ExpiresAtMs(t, ttl) == t + ttl

\* expires = Date.now() + (ttl * 1000)
ExpiresAt(t, ttl) == t + (ttl * MsPerSecond)

\* (variant: lastModified is not stored)
MemSetUndated(m, max, k, d, ttl, lm, t) ==
  MapSet(Evict(m, max),
         [key |-> k, data |-> d, expires |-> ExpiresAt(t, ttl), lastModified |-> NoDate])

\* MemoryCache.set(key, data, ttl, lastModified) at time t
MemSet(m, max, k, d, ttl, lm, t) ==
  MapSet(Evict(m, max),
         [key |-> k, data |-> d, expires |-> ExpiresAt(t, ttl), lastModified |-> lm])

\* (variant: the entry counts as expired from the instant now = expires)
ExpiredFromExpiresAt(e, t) == t >= e.expires

\* if (Date.now() > entry.expires)
Expired(e, t) == t > e.expires

\* MemoryCache.get(key) at time t: the value returned ...
MemGetValue(m, k, t) ==
  IF ~Has(m, k) THEN Null
  ELSE IF Expired(EntryOf(m, k), t) THEN Null
  ELSE EntryOf(m, k).data

\* (variant: a get that leaves an expired entry in the map)
MemGetMapKept(m, k, t) == m

\* ... and the map it leaves
MemGetMap(m, k, t) ==
  IF Has(m, k) /\ Expired(EntryOf(m, k), t) THEN MapDelete(m, k) ELSE m

\* (variant: an equal Date counts as newer)
NewerOrSame(t, lm) == t >= lm

\* lastModified > entry.lastModified
Newer(t, lm) == t > lm

\* MemoryCache.isStale(key, lastModified); a Date object is always truthy
MemIsStale(m, k, t) ==
  IF ~Has(m, k) \/ EntryOf(m, k).lastModified = NoDate THEN TRUE
  ELSE Newer(t, EntryOf(m, k).lastModified)

\* MemoryCache.getStats().size
MemSize(m) == Len(m)

(***************************************************************************)
(* MemoryCache driven directly through its public methods.                 *)
(***************************************************************************)
\* t is the time of the call, recorded for get (0 for the other methods)
Call(op, k, arg, ret, flag, t) ==
  [op |-> op, key |-> k, arg |-> arg, ret |-> ret, flag |-> flag, t |-> t]

NoCall == Call("none", "", NoDate, Null, FALSE, 0)

\* the service is not constructed in the runs of the bare MemoryCache
SvcUnused ==
  /\ enabled = TRUE /\ redisOn = FALSE /\ auto = FALSE
  /\ redis = Null
  /\ docs = [d \in Docs |-> NoDate] /\ srcVer = 0 /\ hook = "idle" /\ doneVer = 0
  /\ reqs = 0
  /\ pc = [p \in Procs |-> "idle"]
  /\ cached = [p \in Procs |-> Null]
  /\ latest = [p \in Procs |-> NoDate]
  /\ fetched = [p \in Procs |-> Null]
  /\ result = [p \in Procs |-> Null]
  /\ needVer = [p \in Procs |-> 0]
  /\ settled = FALSE
  /\ MgrUnused
  /\ ExtUnused

\* set(key, data, ttl, lastModified?): a value with a Date, or one without
SetInputs(t) == {[v |-> 1, lm |-> t], [v |-> 2, lm |-> NoDate]}

\* isStale(key, lastModified): the Date of now, or of one second earlier
StaleInputs(t) == {t, t - MsPerSecond} \cap Times

MemInit ==
  /\ now = 0
  /\ maxSize \in 1..MaxCap
  /\ mem = <<>>
  /\ last = NoCall
  /\ sets = 0
  /\ SvcUnused

\* the clock advances
Tick ==
  /\ now + TickMs <= MaxTicks * TickMs
  /\ now' = now + TickMs
  /\ UNCHANGED <<maxSize, mem, last, sets, svcVars>>

\* cache.set(k, d, ttl, lm)
DoSet(k, v, lm) ==
  /\ sets < MaxSets
  /\ sets' = sets + 1
  /\ mem' = MemSet(mem, maxSize, k, Value(v), TtlSeconds, lm, now)
  /\ last' = Call("set", k, lm, Value(v), FALSE, 0)
  /\ UNCHANGED <<now, maxSize, svcVars>>

\* cache.get(k)
DoGet(k) ==
  /\ mem' = MemGetMap(mem, k, now)
  /\ last' = Call("get", k, NoDate, MemGetValue(mem, k, now), FALSE, now)
  /\ UNCHANGED <<now, maxSize, sets, svcVars>>

\* (variant: an isStale that sweeps the entry when it has expired)
DoIsStaleSweeping(k, t) ==
  /\ last' = Call("isStale", k, t, Null, MemIsStale(mem, k, t), 0)
  /\ mem' = MemGetMap(mem, k, now)
  /\ UNCHANGED <<now, maxSize, sets, svcVars>>

\* cache.isStale(k, t)
DoIsStale(k, t) ==
  /\ last' = Call("isStale", k, t, Null, MemIsStale(mem, k, t), 0)
  /\ UNCHANGED <<now, maxSize, mem, sets, svcVars>>

\* cache.delete(k)
DoDelete(k) ==
  /\ mem' = MapDelete(mem, k)
  /\ last' = Call("delete", k, NoDate, Null, FALSE, 0)
  /\ UNCHANGED <<now, maxSize, sets, svcVars>>

\* cache.clear()
DoClear ==
  /\ mem' = <<>>
  /\ last' = Call("clear", "", NoDate, Null, FALSE, 0)
  /\ UNCHANGED <<now, maxSize, sets, svcVars>>

MemNext ==
  \/ Tick
  \/ \E k \in Keys, in \in SetInputs(now) : DoSet(k, in.v, in.lm)
  \/ \E k \in Keys : DoGet(k)
  \/ \E k \in Keys, t \in StaleInputs(now) : DoIsStale(k, t)
  \/ \E k \in Keys : DoDelete(k)
  \/ DoClear

SpecMem == MemInit /\ [][MemNext]_vars

(***************************************************************************)
(* RedisCache: the remote store as seen through setex / get / del.         *)
(* A remote call takes effect and is answered in one step; a call that     *)
(* fails (ok = FALSE) leaves the store as it was.                          *)
(***************************************************************************)
\* redis.setex(key, ttl, JSON.stringify({data, timestamp})) at time t
RedisSet(r, d, ttl, t, ok) ==
  IF ok THEN [data |-> Json(d), expires |-> t + (ttl * MsPerSecond)] ELSE r

\* redis.get(key) at time t; `if (!result) return null; return parsed.data`
RedisGet(r, t, ok) ==
  IF ok /\ r.data # Null /\ t < r.expires THEN r.data ELSE Null

\* (variant: the delete is not sent)
RedisDelIgnored(r, ok) == r

\* redis.del(key)
RedisDel(r, ok) == IF ok THEN NoEntry ELSE r

(***************************************************************************)
(* The source collection.                                                  *)
(***************************************************************************)
Max(S) == CHOOSE x \in S : \A y \in S : y <= x

\* Product.findOne({}, {updatedAt: 1}, {sort: {updatedAt: -1}})?.updatedAt
LatestUpdatedAt(ds) == Max({ds[d] : d \in Docs} \cup {NoDate})

\* Product.find({}) ... .lean(), transformed
Snapshot(ver) == Value(ver)

(***************************************************************************)
(* BaseCacheService and the read-through of ProductService.getAllProducts  *)
(* on its key.  One action is one stretch of code between two awaits.      *)
(***************************************************************************)
K == "products:all"

SvcInit(autoInvalidate) ==
  /\ now = 0
  /\ maxSize = MaxCap
  /\ mem = <<>>
  /\ last = NoCall
  /\ sets = 0
  /\ enabled \in BOOLEAN
  /\ redisOn \in BOOLEAN
  /\ auto = autoInvalidate
  /\ redis = NoEntry
  /\ docs \in [Docs -> {NoDate, 0}]
  /\ srcVer = 0
  /\ hook = "idle"
  /\ doneVer = 0
  /\ reqs = 0
  /\ pc = [p \in Procs |-> "idle"]
  /\ cached = [p \in Procs |-> Null]
  /\ latest = [p \in Procs |-> NoDate]
  /\ fetched = [p \in Procs |-> Null]
  /\ result = [p \in Procs |-> Null]
  /\ needVer = [p \in Procs |-> 0]
  /\ settled = FALSE
  /\ MgrUnused
  /\ ExtUnused

\* getAllProducts is called: getCache up to its first await
Start(p) ==
  /\ pc[p] \in {"idle", "hit", "fresh"}
  /\ reqs < MaxRequests
  /\ reqs' = reqs + 1
  /\ needVer' = [needVer EXCEPT ![p] = doneVer]
  /\ result' = [result EXCEPT ![p] = Null]
  /\ IF ~enabled
       THEN /\ cached' = [cached EXCEPT ![p] = Null]
            /\ pc' = [pc EXCEPT ![p] = "fetch"]
            /\ UNCHANGED <<mem, settled>>
       ELSE /\ mem' = MemGetMap(mem, K, now)
            /\ settled' = (settled /\ mem' = mem)
            /\ cached' = [cached EXCEPT ![p] = MemGetValue(mem, K, now)]
            /\ pc' = [pc EXCEPT ![p] =
                 IF MemGetValue(mem, K, now) # Null THEN "probe"
                 ELSE IF redisOn THEN "redisGet" ELSE "fetch"]
  /\ UNCHANGED <<now, maxSize, last, sets, cfgVars, redis, srcVars, latest, fetched>>

\* getCache: redisCache.get has answered; a hit is back-filled
RedisGetDone(p, ok) ==
  /\ pc[p] = "redisGet"
  /\ cached' = [cached EXCEPT ![p] = RedisGet(redis, now, ok)]
  /\ IF RedisGet(redis, now, ok) # Null
       THEN /\ mem' = MemSet(mem, maxSize, K, RedisGet(redis, now, ok),
                             TtlSeconds, NoDate, now)
            /\ pc' = [pc EXCEPT ![p] = "probe"]
       ELSE /\ mem' = mem
            /\ pc' = [pc EXCEPT ![p] = "fetch"]
  /\ settled' = FALSE
  /\ UNCHANGED <<now, maxSize, last, sets, cfgVars, redis, srcVars, reqs,
                 latest, fetched, result, needVer>>

\* Product.findOne(...) reads the collection
DbProbe(p) ==
  /\ pc[p] = "probe"
  /\ latest' = [latest EXCEPT ![p] = LatestUpdatedAt(docs)]
  /\ pc' = [pc EXCEPT ![p] = "probed"]
  /\ UNCHANGED <<now, memVars, cfgVars, redis, srcVars, reqs,
                 cached, fetched, result, needVer, settled>>

\* if (!latestProduct || !this.isCacheStale(cacheKey, latestProduct.updatedAt))
AfterProbe(p) ==
  /\ pc[p] = "probed"
  /\ IF latest[p] = NoDate \/ ~MemIsStale(mem, K, latest[p])
       THEN /\ result' = [result EXCEPT ![p] = cached[p]]
            /\ pc' = [pc EXCEPT ![p] = "hit"]
       ELSE /\ result' = result
            /\ pc' = [pc EXCEPT ![p] = "fetch"]
  /\ cached' = [cached EXCEPT ![p] = Null]
  /\ latest' = [latest EXCEPT ![p] = NoDate]
  /\ UNCHANGED <<now, memVars, cfgVars, redis, srcVars, reqs,
                 fetched, needVer, settled>>

\* Product.find({}) reads the collection
DbFetch(p) ==
  /\ pc[p] = "fetch"
  /\ fetched' = [fetched EXCEPT ![p] = Snapshot(srcVer)]
  /\ pc' = [pc EXCEPT ![p] = "fetched"]
  /\ UNCHANGED <<now, memVars, cfgVars, redis, srcVars, reqs,
                 cached, latest, result, needVer, settled>>

\* return transformedProducts
Return(p) ==
  /\ result' = [result EXCEPT ![p] = fetched[p]]
  /\ fetched' = [fetched EXCEPT ![p] = Null]
  /\ pc' = [pc EXCEPT ![p] = "fresh"]

\* (variant: setCache without `if (!this.config.enabled) return`)
AfterFetchAlways(p) ==
  /\ pc[p] = "fetched"
  /\ mem' = MemSet(mem, maxSize, K, fetched[p], TtlSeconds, now, now)
  /\ settled' = TRUE
  /\ IF redisOn
       THEN /\ pc' = [pc EXCEPT ![p] = "redisSet"]
            /\ UNCHANGED <<result, fetched>>
       ELSE Return(p)
  /\ UNCHANGED <<now, maxSize, last, sets, cfgVars, redis, srcVars, reqs,
                 cached, latest, needVer>>

\* (variant: a request that finds the key written meanwhile keeps that entry)
AfterFetchOnce(p) ==
  /\ pc[p] = "fetched"
  /\ IF ~enabled \/ Has(mem, K)
       THEN /\ UNCHANGED <<mem, settled>>
            /\ Return(p)
       ELSE /\ mem' = MemSet(mem, maxSize, K, fetched[p], TtlSeconds, now, now)
            /\ settled' = TRUE
            /\ IF redisOn
                 THEN /\ pc' = [pc EXCEPT ![p] = "redisSet"]
                      /\ UNCHANGED <<result, fetched>>
                 ELSE Return(p)
  /\ UNCHANGED <<now, maxSize, last, sets, cfgVars, redis, srcVars, reqs,
                 cached, latest, needVer>>

\* latestUpdate = new Date(); setCache up to its first await
AfterFetch(p) ==
  /\ pc[p] = "fetched"
  /\ IF ~enabled
       THEN /\ UNCHANGED <<mem, settled>>
            /\ Return(p)
       ELSE /\ mem' = MemSet(mem, maxSize, K, fetched[p], TtlSeconds, now, now)
            /\ settled' = TRUE
            /\ IF redisOn
                 THEN /\ pc' = [pc EXCEPT ![p] = "redisSet"]
                      /\ UNCHANGED <<result, fetched>>
                 ELSE Return(p)
  /\ UNCHANGED <<now, maxSize, last, sets, cfgVars, redis, srcVars, reqs,
                 cached, latest, needVer>>

\* (variant: RedisCache.set without its try / catch)
RedisSetDoneThrows(p, ok) ==
  /\ pc[p] = "redisSet"
  /\ redis' = RedisSet(redis, fetched[p], TtlSeconds, now, ok)
  /\ IF ok
       THEN Return(p)
       ELSE /\ pc' = [pc EXCEPT ![p] = "failed"]
            /\ UNCHANGED <<result, fetched>>
  /\ UNCHANGED <<now, memVars, cfgVars, srcVars, reqs,
                 cached, latest, needVer, settled>>

\* setCache: redisCache.set has answered; return transformedProducts
RedisSetDone(p, ok) ==
  /\ pc[p] = "redisSet"
  /\ redis' = RedisSet(redis, fetched[p], TtlSeconds, now, ok)
  /\ Return(p)
  /\ UNCHANGED <<now, memVars, cfgVars, srcVars, reqs,
                 cached, latest, needVer, settled>>

(***************************************************************************)
(* Mutations of the collection and the post hooks of CacheManager.         *)
(***************************************************************************)
\* what a save / update / delete does to the documents (timestamps: true)
Mutated(ds, kind, d, t) ==
  IF kind = "delete" THEN [ds EXCEPT ![d] = NoDate] ELSE [ds EXCEPT ![d] = t]

MutationKinds(ds, d) ==
  IF ds[d] = NoDate THEN {"create"} ELSE {"update", "delete"}

\* a document is created, updated or deleted; the post hook is then due
Mutate(kind, d) ==
  /\ hook = "idle"
  /\ srcVer < MaxMutations
  /\ kind \in MutationKinds(docs, d)
  /\ docs' = Mutated(docs, kind, d, now)
  /\ srcVer' = srcVer + 1
  /\ hook' = IF auto THEN "post" ELSE "idle"
  /\ doneVer' = IF auto THEN doneVer ELSE srcVer + 1
  /\ settled' = FALSE
  /\ UNCHANGED <<now, memVars, cfgVars, redis, reqVars>>

\* the memory side of invalidateProductCache: two invalidateCache calls and
\* two clearCache(pattern) calls, each run up to its first await
\* (variant: a clearCache that leaves the memory cache alone)
ClearedByPatternKept(m) == m

ClearedByPattern(m) == IF MemSize(m) > 0 THEN <<>> ELSE m
InvalidateProductMem(m) ==
  ClearedByPattern(ClearedByPattern(
    MapDelete(MapDelete(m, "products:all"), "products:low-stock")))

\* Product.schema.post(...): invalidateProductCache starts
HookRun ==
  /\ hook = "post"
  /\ mem' = InvalidateProductMem(mem)
  /\ settled' = FALSE
  /\ hook' = IF redisOn THEN "redisDel" ELSE "idle"
  /\ doneVer' = IF redisOn THEN doneVer ELSE srcVer
  /\ UNCHANGED <<now, maxSize, last, sets, cfgVars, redis, docs, srcVer, reqVars>>

\* its remote deletes have answered: the mutation has completed
HookRedisDone(ok) ==
  /\ hook = "redisDel"
  /\ redis' = RedisDel(redis, ok)
  /\ hook' = "idle"
  /\ doneVer' = srcVer
  /\ UNCHANGED <<now, memVars, cfgVars, docs, srcVer, reqVars, settled>>

\* requests and mutations interleave freely, hooks are registered
SvcNext ==
  \/ Tick
  \/ \E p \in Procs : Start(p)
  \/ \E p \in Procs, ok \in BOOLEAN : RedisGetDone(p, ok)
  \/ \E p \in Procs : DbProbe(p)
  \/ \E p \in Procs : AfterProbe(p)
  \/ \E p \in Procs : DbFetch(p)
  \/ \E p \in Procs : AfterFetch(p)
  \/ \E p \in Procs, ok \in BOOLEAN : RedisSetDone(p, ok)
  \/ \E d \in Docs, kind \in {"create", "update", "delete"} : Mutate(kind, d)
  \/ HookRun
  \/ \E ok \in BOOLEAN : HookRedisDone(ok)

SpecSvc == SvcInit(TRUE) /\ [][SvcNext]_vars

\* the same service started over a remote store that already holds the key,
\* written by an earlier process: the first getCache is a secondary hit
WarmInit ==
  /\ now = 0
  /\ maxSize = MaxCap
  /\ mem = <<>>
  /\ last = NoCall
  /\ sets = 0
  /\ enabled = TRUE
  /\ redisOn = TRUE
  /\ auto = TRUE
  /\ redis = RedisSet(NoEntry, Snapshot(0), TtlSeconds, now, TRUE)
  /\ docs \in [Docs -> {NoDate, 0}]
  /\ srcVer = 0
  /\ hook = "idle"
  /\ doneVer = 0
  /\ reqs = 0
  /\ pc = [p \in Procs |-> "idle"]
  /\ cached = [p \in Procs |-> Null]
  /\ latest = [p \in Procs |-> NoDate]
  /\ fetched = [p \in Procs |-> Null]
  /\ result = [p \in Procs |-> Null]
  /\ needVer = [p \in Procs |-> 0]
  /\ settled = FALSE
  /\ MgrUnused
  /\ ExtUnused

SpecWarm == WarmInit /\ [][SvcNext]_vars

\* one caller, one request at a time, mutations between requests, no hooks
Quiet == \A p \in Procs : pc[p] \in {"idle", "hit", "fresh"}

SeqNext ==
  \/ Tick
  \/ Quiet /\ Start(1)
  \/ \E ok \in BOOLEAN : RedisGetDone(1, ok)
  \/ DbProbe(1)
  \/ AfterProbe(1)
  \/ DbFetch(1)
  \/ AfterFetch(1)
  \/ \E ok \in BOOLEAN : RedisSetDone(1, ok)
  \/ \E d \in Docs, kind \in {"create", "update", "delete"} :
       Quiet /\ Mutate(kind, d)

SpecSeq == SvcInit(FALSE) /\ [][SeqNext]_vars

(***************************************************************************)
(* BaseCacheService over all its keys: setCache, getCache, invalidateCache *)
(* and clearCache of one service.  A call runs up to its first await in    *)
(* one step, which leaves its remote call in flight; the remote call takes *)
(* effect and is answered in a later step, and then the operation returns. *)
(***************************************************************************)
\* the variables of the single-key read-through, left alone here
restVars == <<now, maxSize, enabled, redisOn, auto, mem, last, sets, redis,
              docs, srcVer, hook, doneVer, reqVars, settled, extVars>>

\* redis holds a value under the key (a key past its setex ttl is gone)
SecHas(r, t) == r.data # Null /\ t < r.expires
SecKeys(sc, t) == {k \in AllKeys : SecHas(sc[k], t)}

\* a remote call in flight: who awaits it and what it asks of the store
Remote(id, s, op, k, d, ks, want) ==
  [id |-> id, svc |-> s, op |-> op, key |-> k, data |-> d, keys |-> ks,
   want |-> want]

\* (variant: RedisCache without its try / catch blocks)
RetThrows(op, k, val, want, logged) ==
  [op |-> op, key |-> k, val |-> val, want |-> want, err |-> logged,
   logged |-> logged]

\* an operation returns val to its caller; want is what a service without a
\* secondary tier returned; logged tells whether console.error was called
Ret(op, k, val, want, logged) ==
  [op |-> op, key |-> k, val |-> val, want |-> want, err |-> FALSE,
   logged |-> logged]

\* what the caller has seen returned once call c has returned r: a call made
\* inside the Promise.all of a hook (id 0) returns there, not to a caller
Answered(c, r) == IF c.id = 0 THEN answer ELSE r

\* the keys and the pattern the calls of this part are made with
OpKeys == {"products:all", "products:query:e30=", "catalog:data"}
OpPatterns == {"products:query:*"}

OpsInitBase ==
  /\ now = 0
  /\ maxSize = MaxCap
  /\ enabled \in BOOLEAN
  /\ redisOn \in BOOLEAN
  /\ auto = FALSE
  /\ mem = <<>> /\ last = NoCall /\ sets = 0
  /\ redis = NoEntry
  /\ docs = [d \in Docs |-> NoDate] /\ srcVer = 0 /\ hook = "idle" /\ doneVer = 0
  /\ reqs = 0
  /\ pc = [p \in Procs |-> "idle"]
  /\ cached = [p \in Procs |-> Null]
  /\ latest = [p \in Procs |-> NoDate]
  /\ fetched = [p \in Procs |-> Null]
  /\ result = [p \in Procs |-> Null]
  /\ needVer = [p \in Procs |-> 0]
  /\ settled = FALSE
  /\ MgrUnused

\* ... by a CacheManager that is left alone afterwards
OpsInit == OpsInitBase /\ ExtUnused

\* setCache(key, data, lastModified) up to `await this.redisCache.set(...)`
SetCache(s, k, d, lm) ==
  /\ issued < MaxCalls
  /\ issued' = issued + 1
  /\ IF ~enabled
       THEN /\ UNCHANGED <<prim, ref, pend>>
            /\ answer' = Ret("set", k, Null, Null, FALSE)
       ELSE /\ prim' = [prim EXCEPT ![s] = MemSet(@, maxSize, k, d, cfgTtl, lm, now)]
            /\ ref' = MemSet(ref, maxSize, k, d, cfgTtl, lm, now)
            /\ IF redisOn
                 THEN /\ pend' = pend \cup {Remote(issued + 1, s, "set", k, d, {}, Null)}
                      /\ answer' = answer
                 ELSE /\ pend' = pend
                      /\ answer' = Ret("set", k, Null, Null, FALSE)
  /\ UNCHANGED <<sec, models, hooks, rq, restVars>>

\* RedisCache.set: redis.setex has answered or thrown
SecSetDone(c, ok) ==
  /\ c \in pend /\ c.op = "set"
  /\ pend' = pend \ {c}
  /\ sec' = [sec EXCEPT ![c.key] = RedisSet(@, c.data, cfgTtl, now, ok)]
  /\ answer' = Ret("set", c.key, Null, Null, ~ok)
  /\ UNCHANGED <<prim, ref, issued, models, hooks, rq, restVars>>

\* getCache(key) up to `await this.redisCache.get(key)`
GetCache(s, k) ==
  /\ issued < MaxCalls
  /\ issued' = issued + 1
  /\ IF ~enabled
       THEN /\ UNCHANGED <<prim, ref, pend>>
            /\ answer' = Ret("get", k, Null, Null, FALSE)
       ELSE /\ prim' = [prim EXCEPT ![s] = MemGetMap(@, k, now)]
            /\ ref' = MemGetMap(ref, k, now)
            /\ IF MemGetValue(prim[s], k, now) = Null /\ redisOn
                 THEN /\ pend' = pend \cup
                           {Remote(issued + 1, s, "get", k, Null, {},
                                   MemGetValue(ref, k, now))}
                      /\ answer' = answer
                 ELSE /\ pend' = pend
                      /\ answer' = Ret("get", k, MemGetValue(prim[s], k, now),
                                       MemGetValue(ref, k, now), FALSE)
  /\ UNCHANGED <<sec, models, hooks, rq, restVars>>

\* RedisCache.get: redis.get has answered or thrown; a hit is back-filled
SecGetDone(c, ok) ==
  /\ c \in pend /\ c.op = "get"
  /\ pend' = pend \ {c}
  /\ IF RedisGet(sec[c.key], now, ok) # Null
       THEN prim' = [prim EXCEPT ![c.svc] =
                       MemSet(@, maxSize, c.key, RedisGet(sec[c.key], now, ok),
                              cfgTtl, NoDate, now)]
       ELSE prim' = prim
  /\ answer' = Ret("get", c.key, RedisGet(sec[c.key], now, ok), c.want, ~ok)
  /\ UNCHANGED <<sec, ref, issued, models, hooks, rq, restVars>>

\* invalidateCache(key) up to `await this.redisCache.delete(key)`
InvalidateCache(s, k) ==
  /\ issued < MaxCalls
  /\ issued' = issued + 1
  /\ prim' = [prim EXCEPT ![s] = MapDelete(@, k)]
  /\ ref' = MapDelete(ref, k)
  /\ IF redisOn
       THEN /\ pend' = pend \cup {Remote(issued + 1, s, "del", k, Null, {}, Null)}
            /\ answer' = answer
       ELSE /\ pend' = pend
            /\ answer' = Ret("invalidate", k, Null, Null, FALSE)
  /\ UNCHANGED <<sec, models, hooks, rq, restVars>>

\* RedisCache.delete: redis.del has answered or thrown
SecDelDone(c, ok) ==
  /\ c \in pend /\ c.op = "del"
  /\ pend' = pend \ {c}
  /\ sec' = [sec EXCEPT ![c.key] = RedisDel(@, ok)]
  /\ answer' = Answered(c, Ret("invalidate", c.key, Null, Null, ~ok))
  /\ UNCHANGED <<prim, ref, issued, models, hooks, rq, restVars>>

\* clearCache(pattern) up to `await this.redis.keys(pattern)`
ClearCache(s, pat) ==
  /\ issued < MaxCalls
  /\ issued' = issued + 1
  /\ prim' = [prim EXCEPT ![s] = ClearedByPattern(@)]
  /\ ref' = ClearedByPattern(ref)
  /\ IF redisOn
       THEN /\ pend' = pend \cup {Remote(issued + 1, s, "keys", pat, Null, {}, Null)}
            /\ answer' = answer
       ELSE /\ pend' = pend
            /\ answer' = Ret("clear", pat, Null, Null, FALSE)
  /\ UNCHANGED <<sec, models, hooks, rq, restVars>>

\* RedisCache.clear: redis.keys(pattern) has answered or thrown;
\* `if (keys.length > 0) await this.redis.del(...keys)`
SecKeysDone(c, ok) ==
  /\ c \in pend /\ c.op = "keys"
  /\ LET found == {k \in SecKeys(sec, now) : Matches(c.key, k)} IN
       IF ok /\ found # {}
         THEN /\ pend' = (pend \ {c}) \cup
                   {Remote(c.id, c.svc, "delKeys", c.key, Null, found, Null)}
              /\ answer' = answer
         ELSE /\ pend' = pend \ {c}
              /\ answer' = Answered(c, Ret("clear", c.key, Null, Null, ~ok))
  /\ UNCHANGED <<prim, sec, ref, issued, models, hooks, rq, restVars>>

\* RedisCache.clear: redis.del(...keys) has answered or thrown
SecDelKeysDone(c, ok) ==
  /\ c \in pend /\ c.op = "delKeys"
  /\ pend' = pend \ {c}
  /\ sec' = [k \in AllKeys |-> IF k \in c.keys THEN RedisDel(sec[k], ok) ELSE sec[k]]
  /\ answer' = Answered(c, Ret("clear", c.key, Null, Null, ~ok))
  /\ UNCHANGED <<prim, ref, issued, models, hooks, rq, restVars>>

\* no operation is in progress
Idle == pend = {}

\* one caller of the product service, one operation at a time
OpsNext ==
  \/ Tick
  \/ \E k \in OpKeys : Idle /\ SetCache("product", k, Value(issued + 1), now)
  \/ \E c \in pend, ok \in BOOLEAN : SecSetDone(c, ok)
  \/ \E k \in OpKeys : Idle /\ GetCache("product", k)
  \/ \E c \in pend, ok \in BOOLEAN : SecGetDone(c, ok)
  \/ \E k \in OpKeys : Idle /\ InvalidateCache("product", k)
  \/ \E c \in pend, ok \in BOOLEAN : SecDelDone(c, ok)
  \/ \E pat \in OpPatterns : Idle /\ ClearCache("product", pat)
  \/ \E c \in pend, ok \in BOOLEAN : SecKeysDone(c, ok)
  \/ \E c \in pend, ok \in BOOLEAN : SecDelKeysDone(c, ok)

SpecOps == OpsInit /\ [][OpsNext]_vars

(***************************************************************************)
(* The same operations on the product service of a CacheManager whose      *)
(* setEnabled is called in between.  The constructor hands this.config to  *)
(* each service, whose own constructor copies it ({...defaults, ...config})*)
(* into its own this.config: `enabled` is the copy, mgrEnabled the         *)
(* manager's.                                                              *)
(***************************************************************************)
\* CacheManager.setEnabled(b): this.config.enabled = b
SetEnabled(b) ==
  /\ mgrEnabled' = b
  /\ UNCHANGED <<now, maxSize, mem, last, sets, enabled, redisOn, redis, auto,
                 srcVars, reqVars, settled, mgrVars, redisCfg, stats, instance,
                 made, got, cfgTtl, notes, prods, lateVars>>

\* CacheManager.isEnabled(): this.config.enabled || false
IsEnabled == mgrEnabled

ToggleNext ==
  \/ OpsNext
  \/ \E b \in BOOLEAN : SetEnabled(b)

SpecToggle == OpsInit /\ [][ToggleNext]_vars

(***************************************************************************)
(* The same operations with getCacheStats, on a service built without a    *)
(* redisConfig, or with one while require('@upstash/redis') or new Redis   *)
(* throws (this.redis stays null), or with a working client.               *)
(***************************************************************************)
\* RedisCache.isAvailable(): this.redis !== null
IsAvailable == redisOn

\* (variant: redis reported as soon as a redisConfig was given)
StatsRedisConfigured(cfg, avail) == cfg

\* this.redisCache?.isAvailable() || false
StatsRedis(cfg, avail) == IF cfg THEN avail ELSE FALSE

AvailInit ==
  /\ OpsInitBase
  /\ redisCfg \in BOOLEAN
  /\ redisOn => redisCfg
  /\ stats = NoStats
  /\ ToggleUnused /\ InstUnused /\ TtlUnused /\ NotesUnused /\ ProdsUnused
  /\ LateUnused

\* getCacheStats() of the product service
GetCacheStats ==
  /\ stats' = [svc |-> "product", size |-> MemSize(prim["product"]),
               maxSize |-> maxSize, redis |-> StatsRedis(redisCfg, IsAvailable)]
  /\ UNCHANGED <<now, maxSize, mem, last, sets, enabled, redisOn, redis, auto,
                 srcVars, reqVars, settled, mgrVars, mgrEnabled, redisCfg,
                 instance, made, got, cfgTtl, notes, prods, lateVars>>

AvailNext ==
  \/ OpsNext
  \/ GetCacheStats

SpecAvail == AvailInit /\ [][AvailNext]_vars

(***************************************************************************)
(* CacheManager.getInstance and CacheManager.configure.  The managers are  *)
(* numbered in the order of their construction; the services of a manager  *)
(* are the three objects its constructor creates, so two callers share     *)
(* their services exactly when they hold the same manager.                 *)
(***************************************************************************)
InstInit ==
  /\ OpsInitBase
  /\ enabled = TRUE /\ redisOn = FALSE
  /\ ExtUnused

\* new CacheManager(config): the object and its three services are created
Construct(cfgEnabled) ==
  /\ made < MaxManagers
  /\ made' = made + 1
  /\ instance' = made + 1
  /\ mgrEnabled' = cfgEnabled
  /\ enabled' = cfgEnabled
  /\ prim' = [s \in Svcs |-> <<>>]

\* what the steps of this part leave alone
instRest == <<now, maxSize, mem, last, sets, redisOn, redis, auto, srcVars,
              reqVars, settled, sec, ref, pend, answer, issued, models, hooks,
              rq, redisCfg, stats, cfgTtl, notes, prods, lateVars>>

\* CacheManager.getInstance(config) by caller c
GetInstance(c, cfgEnabled) ==
  /\ IF instance = 0
       THEN Construct(cfgEnabled)
       ELSE UNCHANGED <<made, instance, mgrEnabled, enabled, prim>>
  /\ got' = [got EXCEPT ![c] = instance']
  /\ UNCHANGED instRest

\* CacheManager.configure(config) by caller c
Configure(c, cfgEnabled) ==
  /\ Construct(cfgEnabled)
  /\ got' = [got EXCEPT ![c] = instance']
  /\ UNCHANGED instRest

InstNext ==
  \/ \E c \in Callers, b \in BOOLEAN : GetInstance(c, b)
  \/ \E c \in Callers, b \in BOOLEAN : Configure(c, b)

SpecInst == InstInit /\ [][InstNext]_vars

(***************************************************************************)
(* The writes of the read-throughs of the product and the sales service,   *)
(* one data type after the other.  Each is `setCache(cacheKey, data, new   *)
(* Date())`: setCache takes no ttl and passes this.config.ttl on, the one  *)
(* ttl of the configuration the CacheManager hands to all its services.    *)
(***************************************************************************)
ConfigTtls == {DefaultTtl, QueryTtl, SearchTtl, StatsTtl}

\* the key each read-through writes, service by service
TtlKeys ==
  [product |-> {"products:query:e30=", "products:search:tv:20",
                "products:low-stock", "catalog:data"},
   catalog |-> {},
   sales |-> {"sales:stats", "service:stats", "sales:recent:50"}]

TtlInit ==
  /\ OpsInitBase
  /\ enabled = TRUE
  /\ cfgTtl \in ConfigTtls
  /\ ToggleUnused /\ AvailUnused /\ InstUnused /\ NotesUnused /\ ProdsUnused
  /\ LateUnused

TtlNext ==
  \/ \E s \in Svcs : \E k \in TtlKeys[s] :
       Idle /\ SetCache(s, k, Value(issued + 1), now)
  \/ \E c \in pend, ok \in BOOLEAN : SecSetDone(c, ok)

SpecTtl == TtlInit /\ [][TtlNext]_vars

(***************************************************************************)
(* SalesNoteSchema.pre('save') and ServiceRequestSchema.pre('save'): a     *)
(* document saved without a number gets one from the document created      *)
(* last.  A number is a string: a prefix and decimal digits.  A save is    *)
(* three steps: it starts (timestamps: true sets createdAt), the findOne   *)
(* of the hook answers and the hook sets the number, the insert reaches    *)
(* the collection, whose index on the number is unique.                    *)
(***************************************************************************)
NumberPrefix(kind) == IF kind = "SalesNote" THEN "NV-" ELSE "SR-"
NumberWidth(kind) == IF kind = "SalesNote" THEN 6 ELSE 3

\* n.toString(), digit by digit
RECURSIVE Digits(_)
Digits(n) == IF n < 10 THEN <<n>> ELSE Append(Digits(n \div 10), n % 10)

\* str.padStart(w, '0')
RECURSIVE PadStart(_, _)
PadStart(ds, w) == IF Len(ds) >= w THEN ds ELSE PadStart(<<0>> \o ds, w)

\* str.slice(-w)
SliceLast(ds, w) ==
  IF Len(ds) <= w THEN ds ELSE SubSeq(ds, Len(ds) - w + 1, Len(ds))

\* parseInt of a string of digits; NaN (here -1) for the empty string
RECURSIVE ParseInt(_)
ParseInt(ds) ==
  IF ds = <<>> THEN -1
  ELSE IF Len(ds) = 1 THEN ds[1]
  ELSE 10 * ParseInt(SubSeq(ds, 1, Len(ds) - 1)) + ds[Len(ds)]

\* `NV-${nextNumber.toString().padStart(6, '0')}`
FormatNumber(kind, n) ==
  [prefix |-> NumberPrefix(kind),
   digits |-> PadStart(Digits(n), NumberWidth(kind))]

\* parseInt(last.numeroComprobante.replace('NV-', ''))
ParseNumber(kind, num) ==
  IF num.prefix = NumberPrefix(kind) THEN ParseInt(num.digits) ELSE -1

\* `NV-${Date.now().toString().slice(-6)}`, the number set by the catch block
FallbackNumber(kind, t) ==
  [prefix |-> NumberPrefix(kind),
   digits |-> SliceLast(Digits(t), NumberWidth(kind))]

\* the documents in the collection
StoredNotes(ns) == {d \in NoteIds : ns.doc[d].pc = "stored"}

\* findOne({number: {$exists: true, $ne: ''}}).sort({createdAt: -1}).limit(1):
\* the documents it can answer with (several when createdAt ties)
LastNotes(ns) ==
  {d \in StoredNotes(ns) :
     \A d2 \in StoredNotes(ns) : ns.doc[d2].createdAt <= ns.doc[d].createdAt}

\* nextNumber, given the document the findOne answered with (0: null)
NextNumber(ns, lastDoc) ==
  IF lastDoc = 0 \/ ns.doc[lastDoc].number = NoNumber THEN 1
  ELSE IF ParseNumber(ns.kind, ns.doc[lastDoc].number) = -1 THEN 1
  ELSE ParseNumber(ns.kind, ns.doc[lastDoc].number) + 1

NotesInit ==
  /\ OpsInitBase
  /\ enabled = TRUE /\ redisOn = FALSE
  /\ notes \in {[NoNotes EXCEPT !.kind = kind] :
                   kind \in {"SalesNote", "ServiceRequest"}}
  /\ ToggleUnused /\ AvailUnused /\ InstUnused /\ TtlUnused /\ ProdsUnused
  /\ LateUnused

\* what the steps of a save leave alone
notesRest == <<now, maxSize, mem, last, sets, enabled, redisOn, redis, auto,
               srcVars, reqVars, settled, mgrVars, mgrEnabled, redisCfg, stats,
               instance, made, got, cfgTtl, prods, lateVars>>

\* new Model({...}).save() is called on a document without a number
SaveStart(d) ==
  /\ notes.doc[d].pc = "new"
  /\ notes' = [notes EXCEPT !.doc[d].pc = "lookup", !.doc[d].createdAt = now]
  /\ UNCHANGED notesRest

\* the findOne of the hook has answered with lastDoc (0: no document), or
\* thrown; the hook sets the number and calls next()
Numbered(d, lastDoc, ok) ==
  /\ notes.doc[d].pc = "lookup"
  /\ IF LastNotes(notes) = {} THEN lastDoc = 0 ELSE lastDoc \in LastNotes(notes)
  /\ notes' = [notes EXCEPT
       !.doc[d].pc = "insert",
       !.doc[d].number = IF ok THEN FormatNumber(notes.kind, NextNumber(notes, lastDoc))
                         ELSE FallbackNumber(notes.kind, now),
       !.doc[d].fellBack = ~ok]
  /\ UNCHANGED notesRest

\* the insert reaches the collection: a number already there is a duplicate
\* key error (unique: true), and the save fails
Insert(d) ==
  /\ notes.doc[d].pc = "insert"
  /\ notes' = [notes EXCEPT !.doc[d].pc =
       IF \E d2 \in StoredNotes(notes) : notes.doc[d2].number = notes.doc[d].number
         THEN "rejected" ELSE "stored"]
  /\ UNCHANGED notesRest

NotesNext ==
  \/ Tick
  \/ \E d \in NoteIds : SaveStart(d)
  \/ \E d \in NoteIds, lastDoc \in NoteIds \cup {0}, ok \in BOOLEAN :
       Numbered(d, lastDoc, ok)
  \/ \E d \in NoteIds : Insert(d)

SpecNotes == NotesInit /\ [][NotesNext]_vars

(***************************************************************************)
(* ProductSchema.pre('save'), the barcode check: for each code of          *)
(* codigosBarras, one findOne for another product holding the code in      *)
(* codigosBarras or codigoBarras, and an error if there is one.  Then the  *)
(* insert, under the unique sparse index on codigoBarras (the index on     *)
(* codigosBarras is not unique).                                           *)
(***************************************************************************)
Barcodes == {"779001", "779002"}

\* what a new product can carry: codigoBarras or none, and a list of
\* distinct codigosBarras (the validator of the field rejects duplicates)
BarcodeInputs ==
  {[NewProduct EXCEPT !.codigoBarras = one, !.codigosBarras = many] :
     one \in Barcodes \cup {""},
     many \in {<<>>} \cup {<<c>> : c \in Barcodes} \cup
              {<<c1, c2>> : <<c1, c2>> \in {x \in Barcodes \X Barcodes : x[1] # x[2]}}}

\* the barcodes a product holds
CodesOf(pr) ==
  {pr.codigosBarras[i] : i \in 1..Len(pr.codigosBarras)} \cup
  ({pr.codigoBarras} \ {""})

\* the products in the collection
StoredProducts(ps) == {p \in ProductIds : ps[p].pc = "stored"}

\* findOne({$and: [{_id: {$ne: product._id}},
\*                 {$or: [{codigosBarras: codigo}, {codigoBarras: codigo}]}]})
ExistingWith(ps, p, codigo) ==
  \E q \in StoredProducts(ps) \ {p} : codigo \in CodesOf(ps[q])

\* the unique sparse index on codigoBarras refuses the insert
DuplicateKey(ps, p) ==
  /\ ps[p].codigoBarras # ""
  /\ \E q \in StoredProducts(ps) \ {p} : ps[q].codigoBarras = ps[p].codigoBarras

ProdsInit ==
  /\ OpsInitBase
  /\ enabled = TRUE /\ redisOn = FALSE
  /\ prods \in [ProductIds -> BarcodeInputs]
  /\ ToggleUnused /\ AvailUnused /\ InstUnused /\ TtlUnused /\ NotesUnused
  /\ LateUnused

\* what the steps of a save leave alone
prodsRest == <<now, maxSize, mem, last, sets, enabled, redisOn, redis, auto,
               srcVars, reqVars, settled, mgrVars, mgrEnabled, redisCfg, stats,
               instance, made, got, cfgTtl, notes, lateVars>>

\* new Product({...}).save(): the hook starts; with no codigosBarras it
\* calls next() at once
ProductSaveStart(p) ==
  /\ prods[p].pc = "new"
  /\ prods' = [prods EXCEPT ![p].pc =
       IF Len(prods[p].codigosBarras) > 0 THEN "check" ELSE "insert"]
  /\ UNCHANGED prodsRest

\* the findOne for the next code of the list has answered
CheckCode(p) ==
  /\ prods[p].pc = "check"
  /\ LET codigo == prods[p].codigosBarras[prods[p].checked + 1] IN
       IF ExistingWith(prods, p, codigo)
         THEN prods' = [prods EXCEPT ![p].pc = "rejected"]
         ELSE prods' = [prods EXCEPT
                ![p].checked = @ + 1,
                ![p].pc = IF prods[p].checked + 1 = Len(prods[p].codigosBarras)
                            THEN "insert" ELSE "check"]
  /\ UNCHANGED prodsRest

\* the insert reaches the collection
ProductInsert(p) ==
  /\ prods[p].pc = "insert"
  /\ prods' = [prods EXCEPT ![p].pc =
       IF DuplicateKey(prods, p) THEN "rejected" ELSE "stored"]
  /\ UNCHANGED prodsRest

ProdsNext ==
  \/ \E p \in ProductIds : ProductSaveStart(p)
  \/ \E p \in ProductIds : CheckCode(p)
  \/ \E p \in ProductIds : ProductInsert(p)

SpecProds == ProdsInit /\ [][ProdsNext]_vars

(***************************************************************************)
(* The hooks of the CacheManagers constructed one after another.  Every    *)
(* constructor run with autoInvalidate calls Product.schema.post with a    *)
(* closure over its own productService; fleet.regs lists the managers      *)
(* whose closures are on the schema, in the order of registration.         *)
(* fleet.mgr[m].warm tells whether the product service of manager m holds  *)
(* cached data, invs how often its invalidateProductCache has run.         *)
(***************************************************************************)
\* what the steps of this part leave alone
fleetRest == <<now, maxSize, mem, last, sets, redisOn, redis, srcVars, reqVars,
               settled, sec, ref, pend, answer, issued, models, hooks, rq,
               redisCfg, stats, got, cfgTtl, notes, prods, db, gen>>

\* new CacheManager({autoInvalidate: a}): the services are created and, if
\* a, setupProductHooks registers the closures of this manager
FleetConstruct(a) ==
  /\ Construct(TRUE)
  /\ auto' = a
  /\ fleet' = [fleet EXCEPT
       !.mgr[made + 1] = [auto |-> a, warm |-> FALSE, invs |-> 0],
       !.regs = IF a THEN Append(@, made + 1) ELSE @]
  /\ UNCHANGED fleetRest

\* CacheManager.getInstance({autoInvalidate: a}) when there is no instance
FleetGetInstance(a) ==
  /\ instance = 0
  /\ FleetConstruct(a)

\* CacheManager.configure({autoInvalidate: a})
FleetConfigure(a) ==
  /\ instance # 0
  /\ FleetConstruct(a)

\* a read-through of the product service of manager m, by whoever holds it
FleetWarm(m) ==
  /\ m <= made
  /\ ~fleet.mgr[m].warm
  /\ fleet' = [fleet EXCEPT !.mgr[m].warm = TRUE]
  /\ UNCHANGED <<made, instance, mgrEnabled, enabled, prim, auto, fleetRest>>

\* the managers whose closures are on the schema
RegisteredManagers(f) == {f.regs[i] : i \in 1..Len(f.regs)}

\* (variant: only the hooks of the current instance are left on the schema)
FleetMutationCurrentOnly ==
  /\ fleet.events < MaxMutations
  /\ fleet' = [fleet EXCEPT
       !.events = @ + 1,
       !.mgr = [m \in ManagerIds |->
                  IF m \in RegisteredManagers(fleet) /\ m = instance
                    THEN [@[m] EXCEPT !.warm = FALSE, !.invs = @ + 1]
                    ELSE @[m]]]
  /\ UNCHANGED <<made, instance, mgrEnabled, enabled, prim, auto, fleetRest>>

\* a Product is saved, updated or deleted: every closure on the schema runs
\* the invalidateProductCache of its manager's product service
FleetMutation ==
  /\ fleet.events < MaxMutations
  /\ fleet' = [fleet EXCEPT
       !.events = @ + 1,
       !.mgr = [m \in ManagerIds |->
                  IF m \in RegisteredManagers(fleet)
                    THEN [@[m] EXCEPT !.warm = FALSE, !.invs = @ + 1]
                    ELSE @[m]]]
  /\ UNCHANGED <<made, instance, mgrEnabled, enabled, prim, auto, fleetRest>>

FleetNext ==
  \/ \E a \in BOOLEAN : FleetGetInstance(a)
  \/ \E a \in BOOLEAN : FleetConfigure(a)
  \/ \E m \in ManagerIds : FleetWarm(m)
  \/ FleetMutation

SpecFleet == InstInit /\ [][FleetNext]_vars

(***************************************************************************)
(* DatabaseConnection: connect, disconnect and getConnectionStatus of the  *)
(* singleton, called by two callers whose calls may overlap.  One action   *)
(* is one stretch of code between two awaits.  mongoose.connect and        *)
(* mongoose.disconnect answer or throw in a later step; the connection may *)
(* drop at any time, which runs the 'disconnected' listeners.              *)
(***************************************************************************)
GetConnectionStatus == db.isConnected

\* what the steps of this part leave alone
dbRest == <<now, maxSize, mem, last, sets, enabled, redisOn, redis, auto,
            srcVars, reqVars, settled, mgrVars, mgrEnabled, redisCfg, stats,
            instance, made, got, cfgTtl, notes, prods, gen, fleet>>

\* (variant: connect without `if (this.isConnected) return`)
DbConnectUnguarded(p) ==
  /\ db.pc[p] = "idle"
  /\ db.started < MaxCalls
  /\ db' = [db EXCEPT !.pc[p] = "connecting", !.out[p] = "none",
                      !.started = @ + 1]
  /\ UNCHANGED dbRest

\* connect({uri, options}) up to `await mongoose.connect(...)`
DbConnect(p) ==
  /\ db.pc[p] = "idle"
  /\ IF db.isConnected
       THEN db' = [db EXCEPT !.out[p] = "already"]
       ELSE /\ db.started < MaxCalls
            /\ db' = [db EXCEPT !.pc[p] = "connecting", !.out[p] = "none",
                                !.started = @ + 1]
  /\ UNCHANGED dbRest

\* mongoose.connect has answered (isConnected = true, the two listeners are
\* registered) or thrown (the error is logged and rethrown)
DbConnectDone(p, ok) ==
  /\ db.pc[p] = "connecting"
  /\ IF ok
       THEN db' = [db EXCEPT !.pc[p] = "idle", !.out[p] = "ok",
                             !.isConnected = TRUE,
                             !.listeners = @ + 1,
                             !.up = TRUE,
                             !.established = IF db.up THEN @ ELSE @ + 1]
       ELSE db' = [db EXCEPT !.pc[p] = "idle", !.out[p] = "error"]
  /\ UNCHANGED dbRest

\* disconnect() up to `await mongoose.disconnect()`
DbDisconnect(p) ==
  /\ db.pc[p] = "idle"
  /\ IF ~db.isConnected
       THEN db' = [db EXCEPT !.out[p] = "noop"]
       ELSE db' = [db EXCEPT !.pc[p] = "disconnecting", !.out[p] = "none"]
  /\ UNCHANGED dbRest

\* mongoose.disconnect has answered (isConnected = false) or thrown (the
\* error is logged and rethrown)
DbDisconnectDone(p, ok) ==
  /\ db.pc[p] = "disconnecting"
  /\ IF ok
       THEN db' = [db EXCEPT !.pc[p] = "idle", !.out[p] = "ok",
                             !.isConnected = FALSE, !.up = FALSE]
       ELSE db' = [db EXCEPT !.pc[p] = "idle", !.out[p] = "error"]
  /\ UNCHANGED dbRest

\* the connection drops: mongoose.connection emits 'disconnected' and every
\* listener registered by connect runs `this.isConnected = false`
DbDropped ==
  /\ db.up
  /\ db' = [db EXCEPT !.up = FALSE,
                      !.isConnected = IF db.listeners > 0 THEN FALSE ELSE @]
  /\ UNCHANGED dbRest

DbNext ==
  \/ \E p \in Procs : DbConnect(p)
  \/ \E p \in Procs, ok \in BOOLEAN : DbConnectDone(p, ok)
  \/ \E p \in Procs : DbDisconnect(p)
  \/ \E p \in Procs, ok \in BOOLEAN : DbDisconnectDone(p, ok)
  \/ DbDropped

SpecDb == OpsInit /\ [][DbNext]_vars

(***************************************************************************)
(* ProductSchema.pre('save'), the codigoInterno hook: a new product        *)
(* without codigoInterno gets a generated code, looked up with findOne,    *)
(* up to maxAttempts times.  Then the insert, under the unique index on    *)
(* codigoInterno.  gen.taken holds the codes of the products stored.       *)
(***************************************************************************)
\* const maxAttempts = 5
MaxAttempts == 5

\* what generateInternalCode can return: PROD-<time>-<random>, of which two
GenCodes == {"PROD-A", "PROD-B"}

GenInit ==
  /\ OpsInitBase
  /\ enabled = TRUE /\ redisOn = FALSE
  /\ \E given \in [ProductIds -> {"", "PROD-A"}], stored \in SUBSET GenCodes :
       gen = [doc |-> [p \in ProductIds |->
                         [pc |-> "new", codigoInterno |-> given[p], attempts |-> 0]],
              taken |-> stored]
  /\ ExtUnusedButLate
  /\ DbUnused /\ FleetUnused

\* what the steps of a save leave alone
genRest == <<now, maxSize, mem, last, sets, enabled, redisOn, redis, auto,
             srcVars, reqVars, settled, mgrVars, mgrEnabled, redisCfg, stats,
             instance, made, got, cfgTtl, notes, prods, db, fleet>>

\* new Product({...}).save(): if (product.isNew && !product.codigoInterno)
\* the loop is entered, a code generated and its findOne issued
CodeSaveStart(p, c) ==
  /\ gen.doc[p].pc = "new"
  /\ IF gen.doc[p].codigoInterno = ""
       THEN gen' = [gen EXCEPT !.doc[p].pc = "find", !.doc[p].codigoInterno = c]
       ELSE gen' = [gen EXCEPT !.doc[p].pc = "insert"]
  /\ UNCHANGED genRest

\* (variant: the hook without `if (!isUnique) throw`)
CodeFoundNoThrow(p, c) ==
  /\ gen.doc[p].pc = "find"
  /\ IF gen.doc[p].codigoInterno \notin gen.taken
          \/ gen.doc[p].attempts + 1 >= MaxAttempts
       THEN gen' = [gen EXCEPT !.doc[p].pc = "insert", !.doc[p].attempts = @ + 1]
       ELSE gen' = [gen EXCEPT !.doc[p].attempts = @ + 1,
                               !.doc[p].codigoInterno = c]
  /\ UNCHANGED genRest

\* the findOne has answered: attempts++, then the loop ends (unique), goes
\* round with a new code, or is left after maxAttempts and the hook throws
CodeFound(p, c) ==
  /\ gen.doc[p].pc = "find"
  /\ IF gen.doc[p].codigoInterno \notin gen.taken
       THEN gen' = [gen EXCEPT !.doc[p].pc = "insert", !.doc[p].attempts = @ + 1]
       ELSE IF gen.doc[p].attempts + 1 < MaxAttempts
         THEN gen' = [gen EXCEPT !.doc[p].attempts = @ + 1,
                                 !.doc[p].codigoInterno = c]
         ELSE gen' = [gen EXCEPT !.doc[p].pc = "failed", !.doc[p].attempts = @ + 1]
  /\ UNCHANGED genRest

\* the insert reaches the collection: the unique index on codigoInterno
CodeInsert(p) ==
  /\ gen.doc[p].pc = "insert"
  /\ IF gen.doc[p].codigoInterno \in gen.taken
       THEN gen' = [gen EXCEPT !.doc[p].pc = "rejected"]
       ELSE gen' = [gen EXCEPT !.doc[p].pc = "stored",
                               !.taken = @ \cup {gen.doc[p].codigoInterno}]
  /\ UNCHANGED genRest

GenNext ==
  \/ \E p \in ProductIds, c \in GenCodes : CodeSaveStart(p, c)
  \/ \E p \in ProductIds, c \in GenCodes : CodeFound(p, c)
  \/ \E p \in ProductIds : CodeInsert(p)

SpecGen == GenInit /\ [][GenNext]_vars

(***************************************************************************)
(* The same operations when the store may never answer: the event loop     *)
(* keeps running what is ready (the clock, here), while nothing obliges    *)
(* the remote store to answer a request, and the code sets no timeout on   *)
(* its requests (RedisConfig is { url, token }).                           *)
(***************************************************************************)
SpecLive == OpsInit /\ [][OpsNext]_vars /\ WF_vars(Tick)

(***************************************************************************)
(* Several callers of setCache on one key: each call writes the memory     *)
(* cache and leaves its redis.setex in flight; @upstash/redis sends each   *)
(* command as an HTTP request of its own, so the requests in flight are    *)
(* served, or fail, in any order.                                          *)
(***************************************************************************)
RaceKey == "products:all"

RaceNext ==
  \/ Tick
  \/ SetCache("product", RaceKey, Value(issued + 1), now)
  \/ \E c \in pend, ok \in BOOLEAN : SecSetDone(c, ok)

SpecRace == OpsInit /\ [][RaceNext]_vars

(***************************************************************************)
(* SalesService.getRecentSalesNotes: the read-through on its key, with a   *)
(* SalesNote.find that can fail.  rq.primWas and rq.secWas record the two  *)
(* tiers as the request found them, rq.failed that its find has thrown.    *)
(***************************************************************************)
SK == "sales:recent:50"

\* latestSale?.updatedAt can be any Date up to now, or none
ProbeInputs(t) == {NoDate} \cup {u \in Times : u <= t}

\* getRecentSalesNotes is called: getCache up to its first await
SalesStart ==
  /\ rq.pc \in {"idle", "done", "error"}
  /\ issued < MaxCalls
  /\ issued' = issued + 1
  /\ IF ~enabled
       THEN /\ prim' = prim
            /\ rq' = [pc |-> "fetch", cached |-> Null, out |-> Null,
                      failed |-> FALSE,
                      primWas |-> prim["sales"], secWas |-> sec[SK]]
       ELSE /\ prim' = [prim EXCEPT !["sales"] = MemGetMap(@, SK, now)]
            /\ rq' = [pc |-> IF MemGetValue(prim["sales"], SK, now) # Null
                               THEN "probe"
                               ELSE IF redisOn THEN "redisGet" ELSE "fetch",
                      cached |-> MemGetValue(prim["sales"], SK, now),
                      out |-> Null,
                      failed |-> FALSE,
                      primWas |-> prim["sales"], secWas |-> sec[SK]]
  /\ UNCHANGED <<sec, ref, pend, answer, models, hooks, restVars>>

\* getCache: redisCache.get has answered or thrown; a hit is back-filled
SalesRedisGetDone(ok) ==
  /\ rq.pc = "redisGet"
  /\ IF RedisGet(sec[SK], now, ok) # Null
       THEN /\ prim' = [prim EXCEPT !["sales"] =
                          MemSet(@, maxSize, SK, RedisGet(sec[SK], now, ok),
                                 TtlSeconds, NoDate, now)]
            /\ rq' = [rq EXCEPT !.pc = "probe",
                                !.cached = RedisGet(sec[SK], now, ok)]
       ELSE /\ prim' = prim
            /\ rq' = [rq EXCEPT !.pc = "fetch"]
  /\ UNCHANGED <<sec, ref, pend, answer, issued, models, hooks, restVars>>

\* SalesNote.findOne has answered with updatedAt = u (NoDate: no document);
\* if (!latestSale || !this.isCacheStale(cacheKey, latestSale.updatedAt))
SalesProbe(u) ==
  /\ rq.pc = "probe"
  /\ IF u = NoDate \/ ~MemIsStale(prim["sales"], SK, u)
       THEN rq' = [rq EXCEPT !.pc = "done", !.out = rq.cached, !.cached = Null]
       ELSE rq' = [rq EXCEPT !.pc = "fetch", !.cached = Null]
  /\ UNCHANGED <<prim, sec, ref, pend, answer, issued, models, hooks, restVars>>

\* (variant: the catch block returns the empty list instead of `throw error`)
SalesFetchMasked(ok) ==
  /\ rq.pc = "fetch"
  /\ IF ok
       THEN /\ prim' = IF enabled
                         THEN [prim EXCEPT !["sales"] =
                                 MemSet(@, maxSize, SK, Value(issued), TtlSeconds, now, now)]
                         ELSE prim
            /\ rq' = IF enabled /\ redisOn
                       THEN [rq EXCEPT !.pc = "redisSet", !.out = Value(issued)]
                       ELSE [rq EXCEPT !.pc = "done", !.out = Value(issued)]
       ELSE /\ prim' = prim
            /\ rq' = [rq EXCEPT !.pc = "done", !.out = Value(0), !.failed = TRUE]
  /\ UNCHANGED <<sec, ref, pend, answer, issued, models, hooks, restVars>>

\* SalesNote.find has answered or thrown.  On an answer: setCache up to its
\* first await.  On an error: console.error, `throw error`.
SalesFetch(ok) ==
  /\ rq.pc = "fetch"
  /\ IF ok
       THEN /\ prim' = IF enabled
                         THEN [prim EXCEPT !["sales"] =
                                 MemSet(@, maxSize, SK, Value(issued), TtlSeconds, now, now)]
                         ELSE prim
            /\ rq' = IF enabled /\ redisOn
                       THEN [rq EXCEPT !.pc = "redisSet", !.out = Value(issued)]
                       ELSE [rq EXCEPT !.pc = "done", !.out = Value(issued)]
       ELSE /\ prim' = prim
            /\ rq' = [rq EXCEPT !.pc = "error", !.out = Null, !.failed = TRUE]
  /\ UNCHANGED <<sec, ref, pend, answer, issued, models, hooks, restVars>>

\* setCache: redisCache.set has answered or thrown; return salesNotes
SalesRedisSetDone(ok) ==
  /\ rq.pc = "redisSet"
  /\ sec' = [sec EXCEPT ![SK] = RedisSet(@, rq.out, TtlSeconds, now, ok)]
  /\ rq' = [rq EXCEPT !.pc = "done"]
  /\ UNCHANGED <<prim, ref, pend, answer, issued, models, hooks, restVars>>

SalesNext ==
  \/ Tick
  \/ SalesStart
  \/ \E ok \in BOOLEAN : SalesRedisGetDone(ok)
  \/ \E u \in ProbeInputs(now) : SalesProbe(u)
  \/ \E ok \in BOOLEAN : SalesFetch(ok)
  \/ \E ok \in BOOLEAN : SalesRedisSetDone(ok)

SpecSales == OpsInit /\ [][SalesNext]_vars

(***************************************************************************)
(* CacheManager: its three services, the post hooks it registers and what  *)
(* they invalidate.  A hook runs every invalidateCache / clearCache of its *)
(* Promise.all up to the first await in one step, which empties the        *)
(* primary tiers and leaves the remote calls in flight.  In this part the  *)
(* remote store answers every call (failures are in the part above).       *)
(***************************************************************************)
\* what an invalidate method of a service calls: invalidateCache on dels,
\* clearCache on clears
ProductPlan ==
  [svc |-> "product",
   dels |-> {"products:all", "products:low-stock"},
   clears |-> {"products:query:*", "products:search:*"}]
CatalogPlan ==
  [svc |-> "catalog",
   dels |-> {"catalog:categories", "catalog:brands", "catalog:suppliers",
             "catalog:full", "catalog:categories-with-products"},
   clears |-> {"catalog:specs:*"}]
SpecificPlan(type) ==
  CASE type = "categories" ->
         [svc |-> "catalog",
          dels |-> {"catalog:categories", "catalog:full",
                    "catalog:categories-with-products"},
          clears |-> {}]
    [] type = "brands" ->
         [svc |-> "catalog", dels |-> {"catalog:brands", "catalog:full"},
          clears |-> {}]
    [] type = "suppliers" ->
         [svc |-> "catalog", dels |-> {"catalog:suppliers", "catalog:full"},
          clears |-> {}]
    [] type = "especificaciones" ->
         [svc |-> "catalog", dels |-> {"catalog:full"},
          clears |-> {"catalog:specs:*"}]
SalesPlan ==
  [svc |-> "sales", dels |-> {"sales:stats"}, clears |-> {"sales:recent:*"}]
ServicePlan ==
  [svc |-> "sales", dels |-> {"service:stats"}, clears |-> {"service:recent:*"}]

\* (variant: the hooks of the referenced entities invalidate the catalog only)
HookPlansOwnOnly(e) ==
  CASE e = "Product" -> {ProductPlan}
    [] e = "Category" -> {SpecificPlan("categories")}
    [] e = "Brand" -> {SpecificPlan("brands")}
    [] e = "Supplier" -> {SpecificPlan("suppliers")}
    [] e = "Especificacion" -> {SpecificPlan("especificaciones")}
    [] e = "SalesNote" -> {SalesPlan}
    [] e = "ServiceRequest" -> {ServicePlan}

\* what the post hook of an entity runs
HookPlans(e) ==
  CASE e = "Product" -> {ProductPlan}
    [] e = "Category" -> {SpecificPlan("categories"), ProductPlan}
    [] e = "Brand" -> {SpecificPlan("brands"), ProductPlan}
    [] e = "Supplier" -> {SpecificPlan("suppliers"), ProductPlan}
    [] e = "Especificacion" -> {SpecificPlan("especificaciones")}
    [] e = "SalesNote" -> {SalesPlan}
    [] e = "ServiceRequest" -> {ServicePlan}

\* what invalidateAllCaches runs
AllCachesPlans == {ProductPlan, CatalogPlan, SalesPlan, ServicePlan}

\* the memory side of a set of plans on the memoryCache m of service s
Invalidated(m, s, plans) ==
  LET mine == {p \in plans : p.svc = s}
      dels == UNION {p.dels : p \in mine}
      clears == UNION {p.clears : p \in mine}
      deleted == SelectSeq(m, LAMBDA e : e.key \notin dels)
  IN IF clears # {} THEN ClearedByPattern(deleted) ELSE deleted

\* the remote calls a set of plans leaves in flight
RemoteCalls(plans) ==
  UNION {{Remote(0, p.svc, "del", k, Null, {}, Null) : k \in p.dels} \cup
         {Remote(0, p.svc, "keys", pat, Null, {}, Null) : pat \in p.clears}
           : p \in plans}

\* setupProductHooks, setupCatalogHooks, setupSalesHooks: each is one try
\* block that requires its models first and then registers entity by entity
HookGroups ==
  {<<"Product">>,
   <<"Category", "Brand", "Supplier", "Especificacion">>,
   <<"SalesNote", "ServiceRequest">>}

\* the entities of a group whose hooks get registered: none if a require
\* throws, otherwise those before the first whose schema.post throws
RegisteredIn(g, ms) ==
  IF \E i \in 1..Len(g) : ms[g[i]] = "noModel"
    THEN {}
    ELSE {g[i] : i \in {n \in 1..Len(g) : \A j \in 1..n : ms[g[j]] = "ok"}}
Registered(ms) == UNION {RegisteredIn(g, ms) : g \in HookGroups}

\* the order in which the read-throughs of a service are called to warm it
KeySeqOfSvc(s) ==
  CASE s = "product" ->
         <<"products:all", "products:low-stock", "products:query:e30=",
           "products:search:tv:20", "catalog:data">>
    [] s = "catalog" ->
         <<"catalog:categories", "catalog:brands", "catalog:suppliers",
           "catalog:specs:c1", "catalog:full",
           "catalog:categories-with-products">>
    [] s = "sales" ->
         <<"sales:recent:50", "sales:stats", "service:stats",
           "service:recent:20">>

\* the memoryCache after setCache(k, data, new Date()) for each k of ks
RECURSIVE Warmed(_, _, _, _)
Warmed(m, max, ks, t) ==
  IF ks = <<>> THEN m
  ELSE Warmed(MemSet(m, max, Head(ks), Value(1), TtlSeconds, t, t), max, Tail(ks), t)

\* the CacheManager is constructed; either no read-through has run yet, or
\* every read-through of every service has run once
MgrInitAuto(modelChoices, autos) ==
  /\ now = 0
  /\ maxSize = Cardinality(AllKeys)
  /\ enabled = TRUE
  /\ redisOn \in BOOLEAN
  /\ auto \in autos
  /\ mem = <<>> /\ last = NoCall /\ sets = 0
  /\ redis = NoEntry
  /\ docs = [d \in Docs |-> NoDate] /\ srcVer = 0 /\ hook = "idle" /\ doneVer = 0
  /\ reqs = 0
  /\ pc = [p \in Procs |-> "idle"]
  /\ cached = [p \in Procs |-> Null]
  /\ latest = [p \in Procs |-> NoDate]
  /\ fetched = [p \in Procs |-> Null]
  /\ result = [p \in Procs |-> Null]
  /\ needVer = [p \in Procs |-> 0]
  /\ settled = FALSE
  /\ models \in modelChoices
  /\ hooks = (IF auto THEN Registered(models) ELSE {})
  /\ \E warm \in {{}, Svcs} :
       /\ prim = [s \in Svcs |->
                    IF s \in warm THEN Warmed(<<>>, maxSize, KeySeqOfSvc(s), now)
                    ELSE <<>>]
       /\ sec = [k \in AllKeys |->
                   IF redisOn /\ \E s \in warm : k \in KeysOfSvc(s)
                     THEN RedisSet(NoEntry, Value(1), TtlSeconds, now, TRUE)
                     ELSE NoEntry]
  /\ ref = <<>>
  /\ pend = {}
  /\ answer = NoRet
  /\ issued = 0
  /\ rq = NoRq
  /\ ExtUnused

\* the same with autoInvalidate left at its default, true
MgrInit(modelChoices) == MgrInitAuto(modelChoices, {TRUE})

\* how the models can load: all of them do, or one of them fails, its
\* require throwing ("noModel") or its schema.post being absent ("noHook")
AllModelsLoad == [e \in Entities |-> "ok"]
ModelChoices ==
  {AllModelsLoad} \cup
  {[AllModelsLoad EXCEPT ![b] = how] : b \in Entities, how \in {"noModel", "noHook"}}

\* a document of entity e is saved, updated or deleted; its post hook,
\* if registered, runs
Mutation(e) ==
  /\ Idle
  /\ issued < MaxCalls
  /\ issued' = issued + 1
  /\ answer' = Ret("mutation", e, Null, Null, FALSE)
  /\ IF e \in hooks
       THEN /\ prim' = [s \in Svcs |-> Invalidated(prim[s], s, HookPlans(e))]
            /\ pend' = IF redisOn THEN RemoteCalls(HookPlans(e)) ELSE pend
       ELSE UNCHANGED <<prim, pend>>
  /\ UNCHANGED <<sec, ref, models, hooks, rq, restVars>>

MgrNext ==
  \/ \E e \in Entities : Mutation(e)
  \/ \E c \in pend : SecDelDone(c, TRUE)
  \/ \E c \in pend : SecKeysDone(c, TRUE)
  \/ \E c \in pend : SecDelKeysDone(c, TRUE)

SpecMgr == MgrInit(ModelChoices) /\ [][MgrNext]_vars

\* CacheManager.invalidateAllCaches()
InvalidateAll ==
  /\ Idle
  /\ issued < MaxCalls
  /\ issued' = issued + 1
  /\ answer' = Ret("invalidateAll", "", Null, Null, FALSE)
  /\ prim' = [s \in Svcs |-> Invalidated(prim[s], s, AllCachesPlans)]
  /\ pend' = IF redisOn THEN RemoteCalls(AllCachesPlans) ELSE pend
  /\ UNCHANGED <<sec, ref, models, hooks, rq, restVars>>

ResetNext ==
  \/ InvalidateAll
  \/ \E c \in pend : SecDelDone(c, TRUE)
  \/ \E c \in pend : SecKeysDone(c, TRUE)
  \/ \E c \in pend : SecDelKeysDone(c, TRUE)

\* every model loads; invalidateAllCaches is called with nothing else running
SpecReset == MgrInit({AllModelsLoad}) /\ [][ResetNext]_vars

(***************************************************************************)
(* The invalidate methods of the three services called directly, one at a  *)
(* time, with getCache calls of other requests in between.  Each method is *)
(* one Promise.all over invalidateCache / clearCache calls (or a single    *)
(* invalidateCache): building the array runs every call up to its first    *)
(* await.                                                                  *)
(***************************************************************************)
InvalidationOps ==
  {"ProductService.invalidateProductCache",
   "ProductService.invalidateCatalogCache",
   "CatalogService.invalidateCatalogCache",
   "CatalogService.invalidateSpecificCache:categories",
   "CatalogService.invalidateSpecificCache:brands",
   "CatalogService.invalidateSpecificCache:suppliers",
   "CatalogService.invalidateSpecificCache:especificaciones",
   "SalesService.invalidateSalesCache",
   "SalesService.invalidateServiceCache"}

\* (variant: the product service's invalidateCatalogCache aimed at the
\* catalog service's 'catalog:full')
PlanOfCrossing(op) ==
  CASE op = "ProductService.invalidateProductCache" -> ProductPlan
    [] op = "ProductService.invalidateCatalogCache" ->
         [svc |-> "product", dels |-> {"catalog:full"}, clears |-> {}]
    [] op = "CatalogService.invalidateCatalogCache" -> CatalogPlan
    [] op = "CatalogService.invalidateSpecificCache:categories" -> SpecificPlan("categories")
    [] op = "CatalogService.invalidateSpecificCache:brands" -> SpecificPlan("brands")
    [] op = "CatalogService.invalidateSpecificCache:suppliers" -> SpecificPlan("suppliers")
    [] op = "CatalogService.invalidateSpecificCache:especificaciones" ->
         SpecificPlan("especificaciones")
    [] op = "SalesService.invalidateSalesCache" -> SalesPlan
    [] op = "SalesService.invalidateServiceCache" -> ServicePlan

\* what each method calls
PlanOf(op) ==
  CASE op = "ProductService.invalidateProductCache" -> ProductPlan
    [] op = "ProductService.invalidateCatalogCache" ->
         [svc |-> "product", dels |-> {"catalog:data"}, clears |-> {}]
    [] op = "CatalogService.invalidateCatalogCache" -> CatalogPlan
    [] op = "CatalogService.invalidateSpecificCache:categories" -> SpecificPlan("categories")
    [] op = "CatalogService.invalidateSpecificCache:brands" -> SpecificPlan("brands")
    [] op = "CatalogService.invalidateSpecificCache:suppliers" -> SpecificPlan("suppliers")
    [] op = "CatalogService.invalidateSpecificCache:especificaciones" ->
         SpecificPlan("especificaciones")
    [] op = "SalesService.invalidateSalesCache" -> SalesPlan
    [] op = "SalesService.invalidateServiceCache" -> ServicePlan

\* (variant: the calls awaited one after the other; only the first exact
\* key is removed before the method yields)
InvalidateOneByOne(op) ==
  /\ \A c \in pend : c.op \notin {"del", "keys", "delKeys"}
  /\ issued < MaxCalls
  /\ issued' = issued + 1
  /\ answer' = Ret("invalidate", op, Null, Null, FALSE)
  /\ LET first == CHOOSE k \in PlanOf(op).dels : TRUE IN
       /\ prim' = [prim EXCEPT ![PlanOf(op).svc] = MapDelete(@, first)]
       /\ pend' = IF redisOn
                    THEN pend \cup {Remote(0, PlanOf(op).svc, "del", first, Null, {}, Null)}
                    ELSE pend
  /\ UNCHANGED <<sec, ref, models, hooks, rq, restVars>>

\* the method is called: every memory removal, and the remote calls left in
\* flight
Invalidate(op) ==
  /\ \A c \in pend : c.op \notin {"del", "keys", "delKeys"}
  /\ issued < MaxCalls
  /\ issued' = issued + 1
  /\ answer' = Ret("invalidate", op, Null, Null, FALSE)
  /\ prim' = [s \in Svcs |-> Invalidated(prim[s], s, {PlanOf(op)})]
  /\ pend' = IF redisOn THEN pend \cup RemoteCalls({PlanOf(op)}) ELSE pend
  /\ UNCHANGED <<sec, ref, models, hooks, rq, restVars>>

InvalNext ==
  \/ \E op \in InvalidationOps : Invalidate(op)
  \/ \E s \in Svcs : \E k \in KeysOfSvc(s) : GetCache(s, k)
  \/ \E c \in pend : SecGetDone(c, TRUE)
  \/ \E c \in pend : SecDelDone(c, TRUE)
  \/ \E c \in pend : SecKeysDone(c, TRUE)
  \/ \E c \in pend : SecDelKeysDone(c, TRUE)

SpecInval == MgrInit({AllModelsLoad}) /\ [][InvalNext]_vars

(***************************************************************************)
(* CatalogService.getCategoriesWithProducts, the read-through of the       *)
(* product count of each category, with the products being created, moved  *)
(* to another category (updated) and deleted between the requests, hooks   *)
(* registered.  srcVer identifies the content of the products collection,  *)
(* hence the counts; needVer[1] is srcVer as the request in progress       *)
(* found it.  The categories themselves are left alone (updatedAt 0).      *)
(* The product service may have read through before (its keys stored).    *)
(***************************************************************************)
CK == "catalog:categories-with-products"

CountsInit ==
  /\ now = 0
  /\ maxSize = Cardinality(AllKeys)
  /\ enabled = TRUE
  /\ redisOn \in BOOLEAN
  /\ auto = TRUE
  /\ mem = <<>> /\ last = NoCall /\ sets = 0
  /\ redis = NoEntry
  /\ docs \in [Docs -> {NoDate, 0}]
  /\ srcVer = 0 /\ hook = "idle" /\ doneVer = 0
  /\ reqs = 0
  /\ pc = [p \in Procs |-> "idle"]
  /\ cached = [p \in Procs |-> Null]
  /\ latest = [p \in Procs |-> NoDate]
  /\ fetched = [p \in Procs |-> Null]
  /\ result = [p \in Procs |-> Null]
  /\ needVer = [p \in Procs |-> 0]
  /\ settled = FALSE
  /\ models = AllModelsLoad
  /\ hooks = Registered(models)
  /\ prim = [s \in Svcs |-> <<>>]
  /\ \E warm \in BOOLEAN :
       sec = [k \in AllKeys |->
                IF warm /\ redisOn /\ k \in KeysOfSvc("product")
                THEN RedisSet(NoEntry, Value(1), TtlSeconds, now, TRUE)
                ELSE NoEntry]
  /\ ref = <<>>
  /\ pend = {}
  /\ answer = NoRet
  /\ issued = 0
  /\ rq = NoRq
  /\ ExtUnused

\* what the steps of this read-through and of the mutations leave alone
countsRest == <<maxSize, mem, last, sets, enabled, redisOn, redis, auto, hook,
                doneVer, reqs, pc, cached, latest, fetched, result, settled,
                ref, answer, models, hooks, extVars>>

\* new Date(Math.max(latestCategory?.updatedAt?.getTime() || 0,
\*                   latestProduct?.updatedAt?.getTime() || 0))
LatestUpdate(ds) == Max({0, LatestUpdatedAt(ds)})

\* getCategoriesWithProducts is called: getCache up to its first await
CountsStart ==
  /\ rq.pc \in {"idle", "done"}
  /\ Idle
  /\ issued < MaxCalls
  /\ issued' = issued + 1
  /\ needVer' = [needVer EXCEPT ![1] = srcVer]
  /\ prim' = [prim EXCEPT !["catalog"] = MemGetMap(@, CK, now)]
  /\ rq' = [NoRq EXCEPT
       !.pc = IF MemGetValue(prim["catalog"], CK, now) # Null THEN "probe"
              ELSE IF redisOn THEN "redisGet" ELSE "fetch",
       !.cached = MemGetValue(prim["catalog"], CK, now)]
  /\ UNCHANGED <<now, sec, pend, docs, srcVer, countsRest>>

\* getCache: redisCache.get has answered or thrown; a hit is back-filled
CountsRedisGetDone(ok) ==
  /\ rq.pc = "redisGet"
  /\ IF RedisGet(sec[CK], now, ok) # Null
       THEN /\ prim' = [prim EXCEPT !["catalog"] =
                          MemSet(@, maxSize, CK, RedisGet(sec[CK], now, ok),
                                 TtlSeconds, NoDate, now)]
            /\ rq' = [rq EXCEPT !.pc = "probe",
                                !.cached = RedisGet(sec[CK], now, ok)]
       ELSE /\ prim' = prim
            /\ rq' = [rq EXCEPT !.pc = "fetch"]
  /\ UNCHANGED <<now, sec, pend, issued, docs, srcVer, needVer, countsRest>>

\* the two findOne have answered;
\* if (!this.isCacheStale(cacheKey, latestUpdate)) return cached
CountsProbe ==
  /\ rq.pc = "probe"
  /\ IF ~MemIsStale(prim["catalog"], CK, LatestUpdate(docs))
       THEN rq' = [rq EXCEPT !.pc = "done", !.out = rq.cached, !.cached = Null]
       ELSE rq' = [rq EXCEPT !.pc = "fetch", !.cached = Null]
  /\ UNCHANGED <<now, prim, sec, pend, issued, docs, srcVer, needVer, countsRest>>

\* Product.aggregate([...]) has answered: setCache(cacheKey, counts, new
\* Date()) up to its first await
CountsFetch ==
  /\ rq.pc = "fetch"
  /\ prim' = [prim EXCEPT !["catalog"] =
                MemSet(@, maxSize, CK, Snapshot(srcVer), TtlSeconds, now, now)]
  /\ rq' = [rq EXCEPT !.pc = IF redisOn THEN "redisSet" ELSE "done",
                      !.out = Snapshot(srcVer)]
  /\ UNCHANGED <<now, sec, pend, issued, docs, srcVer, needVer, countsRest>>

\* setCache: redisCache.set has answered or thrown; return the counts
CountsRedisSetDone(ok) ==
  /\ rq.pc = "redisSet"
  /\ sec' = [sec EXCEPT ![CK] = RedisSet(@, rq.out, TtlSeconds, now, ok)]
  /\ rq' = [rq EXCEPT !.pc = "done"]
  /\ UNCHANGED <<now, prim, pend, issued, docs, srcVer, needVer, countsRest>>

\* a product is created, moved to another category or deleted, between two
\* requests; the post hook of Product runs invalidateProductCache
ProductMutate(kind, d) ==
  /\ rq.pc \in {"idle", "done"}
  /\ Idle
  /\ srcVer < MaxMutations
  /\ kind \in MutationKinds(docs, d)
  /\ docs' = Mutated(docs, kind, d, now)
  /\ srcVer' = srcVer + 1
  /\ IF "Product" \in hooks
       THEN /\ prim' = [s \in Svcs |-> Invalidated(prim[s], s, HookPlans("Product"))]
            /\ pend' = IF redisOn THEN RemoteCalls(HookPlans("Product")) ELSE pend
       ELSE UNCHANGED <<prim, pend>>
  /\ UNCHANGED <<now, sec, issued, rq, needVer, countsRest>>

CountsNext ==
  \/ Tick
  \/ CountsStart
  \/ \E ok \in BOOLEAN : CountsRedisGetDone(ok)
  \/ CountsProbe
  \/ CountsFetch
  \/ \E ok \in BOOLEAN : CountsRedisSetDone(ok)
  \/ \E d \in Docs, kind \in {"create", "update", "delete"} : ProductMutate(kind, d)
  \/ \E c \in pend : SecDelDone(c, TRUE)
  \/ \E c \in pend : SecKeysDone(c, TRUE)
  \/ \E c \in pend : SecDelKeysDone(c, TRUE)

SpecCounts == CountsInit /\ [][CountsNext]_vars

(***************************************************************************)
(* The operation kinds the hooks are registered for.  Each entity gets two *)
(* schema.post calls, one with the save / update kinds and one with the    *)
(* delete kinds; insertMany stands for the operations no hook is           *)
(* registered for.                                                         *)
(***************************************************************************)
SaveKinds == {"save", "findOneAndUpdate", "updateOne", "updateMany"}
DeleteKinds == {"findOneAndDelete", "deleteOne", "deleteMany"}
OpKinds == SaveKinds \cup DeleteKinds \cup {"insertMany"}

\* (variant: only the first schema.post of each entity is made)
HookKindsSaveOnly(e) == SaveKinds

\* the kinds named in the schema.post calls of entity e
HookKinds(e) == SaveKinds \cup DeleteKinds

\* the (entity, kind) pairs that have a post hook
Subscribed(hs) ==
  {x \in Entities \X OpKinds : x[1] \in hs /\ x[2] \in HookKinds(x[1])}

\* an operation of the given kind on entity e has succeeded; its post hook,
\* if there is one for that kind, runs
Operation(e, kind) ==
  /\ Idle
  /\ issued < MaxCalls
  /\ issued' = issued + 1
  /\ answer' = Ret(kind, e, Null, Null, FALSE)
  /\ IF <<e, kind>> \in Subscribed(hooks)
       THEN /\ prim' = [s \in Svcs |-> Invalidated(prim[s], s, HookPlans(e))]
            /\ pend' = IF redisOn THEN RemoteCalls(HookPlans(e)) ELSE pend
       ELSE UNCHANGED <<prim, pend>>
  /\ UNCHANGED <<sec, ref, models, hooks, rq, restVars>>

HooksNext ==
  \/ \E e \in Entities, kind \in OpKinds : Operation(e, kind)
  \/ \E c \in pend : SecDelDone(c, TRUE)
  \/ \E c \in pend : SecKeysDone(c, TRUE)
  \/ \E c \in pend : SecDelKeysDone(c, TRUE)

\* every model loads; autoInvalidate is true or false
SpecHooks == MgrInitAuto({AllModelsLoad}, BOOLEAN) /\ [][HooksNext]_vars

Returned(p) == pc[p] \in {"hit", "fresh"}
KeyLive == Has(mem, K) /\ ~Expired(EntryOf(mem, K), now)

\* the step is the first stretch of getCache / the answer of redisCache.get /
\* the first stretch of setCache / the answer of redisCache.set, in request p
IsStart(p) == reqs' = reqs + 1 /\ pc'[p] # pc[p]
IsRedisGetDone(p) == pc[p] = "redisGet" /\ pc'[p] # "redisGet"
IsAfterFetch(p) == pc[p] = "fetched" /\ pc'[p] # "fetched"
IsRedisSetDone(p) == pc[p] = "redisSet" /\ pc'[p] # "redisSet"

(***************************************************************************)
(* C1: with auto-invalidation enabled, for every interleaving of           *)
(* read-through requests, mutations and their invalidation hooks, a        *)
(* request that starts after a mutation has completed returns a result     *)
(* reflecting that mutation.                                               *)
(***************************************************************************)
C1_SeesCompletedMutations ==
  \A p \in Procs : Returned(p) => result[p].ver >= needVer[p]

(***************************************************************************)
(* C2: with auto-invalidation disabled, in a purely sequential run, the    *)
(* read-through that follows a create, update or delete does not return    *)
(* the previously cached value: whatever the workflow returns equals what  *)
(* a fresh fetch would return.                                             *)
(***************************************************************************)
C2_StalenessCheckSuffices ==
  Returned(1) => result[1].ver = needVer[1]

(***************************************************************************)
(* C7: for an unchanged source, with no expiry, eviction or invalidation   *)
(* in between, once a read-through has fetched and written the key, every  *)
(* later read-through returns the identical result from the cache and      *)
(* performs no further fetch.                                              *)
(***************************************************************************)
C7_FetchOnce ==
  (settled /\ KeyLive) =>
    /\ pc[1] \notin {"redisGet", "fetch", "fetched"}
    /\ pc[1] \in {"probe", "probed"} => cached[1] = EntryOf(mem, K).data
    /\ Returned(1) => result[1] = EntryOf(mem, K).data

\* the second request has been answered from the cache, after the probe
C7_Witness ==
  /\ settled /\ KeyLive
  /\ reqs = 2
  /\ pc[1] = "hit"
  /\ result[1] = EntryOf(mem, K).data
  /\ LatestUpdatedAt(docs) # NoDate

(***************************************************************************)
(* C8 as stated: getCache returns a primary hit without any secondary-tier *)
(* operation; on a primary miss and a secondary hit it writes the value    *)
(* into the primary tier with the configured TTL and returns it; on a miss *)
(* in both tiers it returns absent and modifies neither tier.              *)
(***************************************************************************)
C8_MissModifiesNothing ==
  [][\A p \in Procs :
       /\ (IsStart(p) /\ enabled /\ MemGetValue(mem, K, now) # Null) =>
            /\ cached'[p] = MemGetValue(mem, K, now)
            /\ pc'[p] = "probe"
            /\ mem' = mem /\ redis' = redis
       /\ (IsStart(p) /\ enabled /\ MemGetValue(mem, K, now) = Null) =>
            /\ pc'[p] = IF redisOn THEN "redisGet" ELSE "fetch"
            /\ cached'[p] = Null
            /\ mem' = mem /\ redis' = redis
       /\ (IsRedisGetDone(p) /\ cached'[p] # Null) =>
            /\ cached'[p] = redis.data
            /\ Has(mem', K)
            /\ EntryOf(mem', K).data = cached'[p]
            /\ EntryOf(mem', K).expires = now + TtlSeconds * MsPerSecond
            /\ redis' = redis
       /\ (IsRedisGetDone(p) /\ cached'[p] = Null) =>
            /\ pc'[p] = "fetch"
            /\ mem' = mem /\ redis' = redis]_vars

(***************************************************************************)
(* C8 amended: as stated, except that on a primary miss the lookup removes *)
(* the key's primary entry when that entry has expired; nothing else of    *)
(* either tier is modified on a miss in both tiers.                        *)
(***************************************************************************)
C8_TierOrder ==
  [][\A p \in Procs :
       /\ (IsStart(p) /\ enabled /\ MemGetValue(mem, K, now) # Null) =>
            /\ cached'[p] = MemGetValue(mem, K, now)
            /\ pc'[p] = "probe"
            /\ mem' = mem /\ redis' = redis
       /\ (IsStart(p) /\ enabled /\ MemGetValue(mem, K, now) = Null) =>
            /\ pc'[p] = IF redisOn THEN "redisGet" ELSE "fetch"
            /\ cached'[p] = Null
            /\ mem' = SelectSeq(mem, LAMBDA e : e.key # K \/ now <= e.expires)
            /\ redis' = redis
       /\ (IsRedisGetDone(p) /\ cached'[p] # Null) =>
            /\ cached'[p] = redis.data
            /\ Has(mem', K)
            /\ EntryOf(mem', K).data = cached'[p]
            /\ EntryOf(mem', K).expires = now + TtlSeconds * MsPerSecond
            /\ redis' = redis
       /\ (IsRedisGetDone(p) /\ cached'[p] = Null) =>
            /\ pc'[p] = "fetch"
            /\ mem' = mem /\ redis' = redis]_vars

\* a secondary hit has just been back-filled and returned by getCache
C8_Witness ==
  \E p \in Procs :
    /\ pc[p] = "probe"
    /\ cached[p] = redis.data
    /\ cached[p] # Null
    /\ Has(mem, K)
    /\ EntryOf(mem, K).data = cached[p]
    /\ EntryOf(mem, K).lastModified = NoDate
    /\ EntryOf(mem, K).expires = now + TtlSeconds * MsPerSecond

(***************************************************************************)
(* C9: with enabled = false, getCache returns absent in every state and    *)
(* setCache modifies neither tier: every read-through performs the fetch   *)
(* and nothing is ever stored.                                             *)
(***************************************************************************)
C9_DisabledStoresNothing ==
  ~enabled =>
    /\ mem = <<>>
    /\ redis = NoEntry
    /\ \A p \in Procs :
         /\ cached[p] = Null
         /\ pc[p] \in {"idle", "fetch", "fetched", "fresh"}

\* a disabled service has answered a request, from the fetch
C9_Witness ==
  /\ ~enabled
  /\ redisOn
  /\ \E p \in Procs : pc[p] = "fresh" /\ result[p] = Snapshot(srcVer)
  /\ reqs = 2

(***************************************************************************)
(* C10: setCache writes the primary tier before it issues the secondary    *)
(* write; when the secondary write fails the primary write has already     *)
(* happened, with the value and its lastModified, and setCache returns     *)
(* normally.                                                               *)
(***************************************************************************)
C10_PrimaryBeforeSecondary ==
  [][\A p \in Procs :
       /\ (IsAfterFetch(p) /\ enabled) =>
            /\ Has(mem', K)
            /\ EntryOf(mem', K).data = fetched[p]
            /\ EntryOf(mem', K).lastModified = now
            /\ redis' = redis
            /\ pc'[p] = IF redisOn THEN "redisSet" ELSE "fresh"
       /\ IsRedisSetDone(p) =>
            /\ pc'[p] = "fresh"
            /\ result'[p] = fetched[p]
            /\ mem' = mem
            /\ redis' \in {redis, [data |-> Json(fetched[p]),
                                   expires |-> now + TtlSeconds * MsPerSecond]}]_vars

\* the only secondary write made so far has failed: the request has returned
\* and the primary tier holds its value
C10_Witness ==
  \E p \in Procs :
    /\ enabled /\ redisOn
    /\ reqs = 1 /\ srcVer = 0
    /\ pc[p] = "fresh"
    /\ redis = NoEntry
    /\ Has(mem, K)
    /\ EntryOf(mem, K).data = result[p]
    /\ EntryOf(mem, K).lastModified # NoDate

\* the step is a call of set / a call of get on key k
IsSetOf(k) == sets' = sets + 1 /\ last'.key = k
IsGetOf(k) == last' # last /\ last'.op = "get" /\ last'.key = k

(***************************************************************************)
(* C3: in every reachable state of MemoryCache the number of stored        *)
(* entries is at most maxSize, for every maxSize and arbitrary string keys.*)
(***************************************************************************)
C3_SizeWithinMaxSize == MemSize(mem) <= maxSize

(***************************************************************************)
(* C4: a set of a key that is not present, made while the cache holds      *)
(* exactly maxSize entries, removes exactly one pre-existing entry, the    *)
(* one inserted earliest, and the new key is present afterwards.           *)
(***************************************************************************)
C4_EvictsOldestAtCapacity ==
  [][\A k \in Keys :
       (IsSetOf(k) /\ ~Has(mem, k) /\ MemSize(mem) = maxSize) =>
         /\ MemSize(mem) >= 1
         /\ KeysOf(mem') = (KeysOf(mem) \ {mem[1].key}) \cup {k}
         /\ MemSize(mem') = maxSize]_vars

(***************************************************************************)
(* C5 as stated: get(key) after set(key, v, ttl) returns v exactly while   *)
(* now < expiresAt and absent for every now >= expiresAt, where            *)
(* expiresAt = time of set + ttl seconds.                                  *)
(***************************************************************************)
C5_AbsentFromExpiresAt ==
  [][\A k \in Keys :
       (IsGetOf(k) /\ Has(mem, k)) =>
         last'.ret = IF now < EntryOf(mem, k).expires
                       THEN EntryOf(mem, k).data ELSE Null]_vars

(***************************************************************************)
(* C5 amended: set(key, v, ttl) records expiresAt = time of set + ttl      *)
(* seconds; get(key) returns v while now <= expiresAt (the instant         *)
(* now = expiresAt included) and absent, removing the entry, once          *)
(* now > expiresAt.                                                        *)
(***************************************************************************)
C5_PresentThroughExpiresAt ==
  [][\A k \in Keys :
       /\ IsSetOf(k) =>
            /\ Has(mem', k)
            /\ EntryOf(mem', k).data = last'.ret
            /\ EntryOf(mem', k).expires = now + TtlSeconds * MsPerSecond
       /\ (IsGetOf(k) /\ Has(mem, k)) =>
            /\ last'.ret = IF now <= EntryOf(mem, k).expires
                             THEN EntryOf(mem, k).data ELSE Null
            /\ Has(mem', k) = (now <= EntryOf(mem, k).expires)
       /\ (IsGetOf(k) /\ ~Has(mem, k)) => last'.ret = Null]_vars

\* a get made at the very instant now = expiresAt has returned the value
C5_Witness ==
  /\ last.op = "get"
  /\ Has(mem, last.key)
  /\ EntryOf(mem, last.key).expires = last.t
  /\ last.ret = EntryOf(mem, last.key).data
  /\ last.ret # Null

(***************************************************************************)
(* C6: isStale(key, t) is true when no entry exists for key, true when the *)
(* entry was written without a lastModified, and otherwise true iff        *)
(* t > entry.lastModified; after a write with lastModified = T0,           *)
(* isStale(key, T0) is false and isStale(key, T0 + 1s) is true.            *)
(***************************************************************************)
C6_IsStale ==
  last.op = "isStale" =>
    LET es == {i \in 1..Len(mem) : mem[i].key = last.key}
    IN /\ es = {} => last.flag
       /\ \A i \in es :
            /\ mem[i].lastModified = NoDate => last.flag
            /\ mem[i].lastModified # NoDate =>
                 /\ last.flag = (last.arg > mem[i].lastModified)
                 /\ last.arg = mem[i].lastModified => ~last.flag
                 /\ last.arg = mem[i].lastModified + MsPerSecond => last.flag

\* isStale(key, T0) has answered false for an entry written with T0 = Date(0)
C6_Witness ==
  /\ last.op = "isStale"
  /\ Has(mem, last.key)
  /\ EntryOf(mem, last.key).lastModified = 0
  /\ last.arg = 0
  /\ ~last.flag

(***************************************************************************)
(* Steps of the cache operations, as the claims below speak of them.       *)
(***************************************************************************)
\* the step is the call of invalidateCache(k) / of clearCache(pat)
CallsInvalidate(k) ==
  /\ issued' = issued + 1
  /\ \/ \E c \in pend' \ pend : c.op = "del" /\ c.key = k
     \/ pend' = pend /\ answer'.op = "invalidate" /\ answer'.key = k
CallsClear(pat) ==
  /\ issued' = issued + 1
  /\ \/ \E c \in pend' \ pend : c.op = "keys" /\ c.key = pat
     \/ pend' = pend /\ answer'.op = "clear" /\ answer'.key = pat

\* the step is the one in which an operation returns to its caller
Completes ==
  \/ issued' = issued + 1 /\ pend' = pend
  \/ pend' # pend /\ pend' \subseteq pend

\* every entry of m under a key other than k is in m2 as it was, and m2 has
\* no key that m did not have
OthersKept(m, m2, k) ==
  /\ KeysOf(m2) \subseteq KeysOf(m)
  /\ \A j \in KeysOf(m) \ {k} : Has(m2, j) /\ EntryOf(m2, j) = EntryOf(m, j)

(***************************************************************************)
(* C11: when invalidateCache(key) has completed with a working secondary   *)
(* tier and no write to key was issued meanwhile, key is absent from the   *)
(* primary and from the secondary tier, and the entries under every other  *)
(* key are unchanged in both tiers.                                        *)
(***************************************************************************)
C11_InvalidateRemovesOnlyKey ==
  [][\A k \in OpKeys :
       /\ CallsInvalidate(k) =>
            /\ ~Has(prim'["product"], k)
            /\ OthersKept(prim["product"], prim'["product"], k)
            /\ sec' = sec
       /\ (Completes /\ redisOn /\ answer'.op = "invalidate" /\ answer'.key = k
             /\ ~answer'.logged) =>
            /\ ~Has(prim'["product"], k)
            /\ ~SecHas(sec'[k], now)
            /\ OthersKept(prim["product"], prim'["product"], k)
            /\ \A j \in AllKeys \ {k} : sec'[j] = sec[j]]_vars

\* products:all has been invalidated in both tiers while another key was, and
\* still is, held in both
C11_Witness ==
  /\ redisOn /\ Idle
  /\ issued = 3
  /\ answer.op = "invalidate" /\ answer.key = "products:all" /\ ~answer.logged
  /\ ~Has(prim["product"], "products:all")
  /\ ~SecHas(sec["products:all"], now)
  /\ Has(prim["product"], "catalog:data")
  /\ SecHas(sec["catalog:data"], now)

(***************************************************************************)
(* C12 as stated: whatever subset of the remote calls fails, no operation  *)
(* returns an error, a failed secondary get is a miss and a failed         *)
(* secondary set, delete or clear a no-op, and the primary tier and the    *)
(* results are exactly those of a service without a secondary tier given   *)
(* the same calls.                                                         *)
(***************************************************************************)
C12_LikePrimaryOnly ==
  /\ ~answer.err
  /\ answer.logged => answer.val = Null
  /\ prim["product"] = ref
  /\ answer.val = answer.want

\* the step is the answer of a secondary get that hits
SecondaryHit == \E c \in pend \ pend' : c.op = "get" /\ answer'.val # Null

(***************************************************************************)
(* C12 amended: whatever subset of the remote calls fails, no operation    *)
(* returns an error, a failed secondary get is a miss and a failed         *)
(* secondary set, delete or clear changes nothing; and until a secondary   *)
(* get hits (its value is back-filled and returned), the primary tier and  *)
(* the results are exactly those of a service without a secondary tier     *)
(* given the same calls.                                                   *)
(***************************************************************************)
C12_RemoteFailuresAreSilent ==
  [][/\ ~answer'.err
     /\ (Completes /\ answer'.logged) =>
          /\ answer'.val = Null
          /\ sec' = sec
          /\ prim' = prim
     /\ (prim["product"] = ref /\ ~SecondaryHit) =>
          /\ prim'["product"] = ref'
          /\ Completes => answer'.val = answer'.want]_vars

\* a secondary get has failed although the store holds the key: the caller
\* got a miss, as from the primary tier alone
C12_Witness ==
  /\ redisOn /\ Idle
  /\ answer.op = "get" /\ answer.logged /\ ~answer.err
  /\ answer.val = Null /\ answer.want = Null
  /\ SecHas(sec[answer.key], now)
  /\ prim["product"] = ref

(***************************************************************************)
(* C13 as stated: when the fetch of a read-through fails, the error is     *)
(* returned to the caller, nothing is written to either tier, a previously *)
(* cached entry of the key is left unchanged, and the caller never gets a  *)
(* cached or empty value in place of the error.                            *)
(***************************************************************************)
C13_FailedFetchTouchesNothing ==
  rq.failed =>
    /\ rq.pc = "error"
    /\ rq.out = Null
    /\ prim["sales"] = rq.primWas
    /\ sec[SK] = rq.secWas

(***************************************************************************)
(* C13 amended: when the fetch of a read-through fails, the error is       *)
(* returned to the caller and never a cached or empty value; setCache is   *)
(* not called, so the secondary tier is unchanged and a primary entry of   *)
(* the key that had not expired is unchanged; the lookup that preceded the *)
(* fetch may have removed an expired primary entry of the key, or          *)
(* back-filled the primary tier with the secondary tier's value.           *)
(***************************************************************************)
C13_FailedFetchWritesNothing ==
  rq.failed =>
    /\ rq.pc = "error"
    /\ rq.out = Null
    /\ sec[SK] = rq.secWas
    /\ \/ prim["sales"] = rq.primWas
       \/ /\ Has(rq.primWas, SK)
          /\ Expired(EntryOf(rq.primWas, SK), now)
          /\ prim["sales"] = MapDelete(rq.primWas, SK)
       \/ /\ Has(rq.primWas, SK) => Expired(EntryOf(rq.primWas, SK), now)
          /\ Has(prim["sales"], SK)
          /\ EntryOf(prim["sales"], SK).data = rq.secWas.data
          /\ EntryOf(prim["sales"], SK).lastModified = NoDate
          /\ OthersKept(rq.primWas, MapDelete(prim["sales"], SK), SK)

\* the key was cached and had not expired, the probe found it stale, the
\* fetch failed: the entry is as it was
C13_Witness ==
  /\ rq.failed /\ rq.pc = "error"
  /\ Has(prim["sales"], SK)
  /\ ~Expired(EntryOf(prim["sales"], SK), now)
  /\ EntryOf(prim["sales"], SK).lastModified # NoDate
  /\ prim["sales"] = rq.primWas
  /\ SecHas(sec[SK], now)

\* the step is a mutation of entity e, with the start of its hook
MutationOf(e) ==
  issued' = issued + 1 /\ answer'.op = "mutation" /\ answer'.key = e

\* the aggregate keys of the products, which embed the referenced entities
ProductAggregateKeys ==
  {"products:all", "products:low-stock", "products:query:e30=",
   "products:search:tv:20"}

\* the catalog keys that are a referenced entity's own
ReferencedOwnKeys(e) ==
  CASE e = "Category" -> {"catalog:categories", "catalog:full"}
    [] e = "Brand" -> {"catalog:brands", "catalog:full"}
    [] e = "Supplier" -> {"catalog:suppliers", "catalog:full"}

(***************************************************************************)
(* C14: once the hook of a mutation of a referenced entity (Category,      *)
(* Brand, Supplier) has been dispatched, that entity's own catalog keys    *)
(* and the product aggregate keys are absent from the primary tier.        *)
(***************************************************************************)
C14_ReferencedEntityClearsDependents ==
  [][\A e \in {"Category", "Brand", "Supplier"} :
       (MutationOf(e) /\ e \in hooks) =>
         /\ \A k \in ReferencedOwnKeys(e) : ~Has(prim'["catalog"], k)
         /\ \A k \in ProductAggregateKeys : ~Has(prim'["product"], k)]_vars

\* a category was mutated with every cache warm: its keys and the product
\* keys are gone from the primary tiers, the brands are still cached
C14_Witness ==
  /\ answer.op = "mutation" /\ answer.key = "Category"
  /\ issued = 1
  /\ "Category" \in hooks
  /\ redisOn /\ SecHas(sec["products:all"], now)
  /\ ~Has(prim["catalog"], "catalog:categories")
  /\ ~Has(prim["catalog"], "catalog:full")
  /\ Has(prim["catalog"], "catalog:brands")
  /\ \A k \in ProductAggregateKeys : ~Has(prim["product"], k)

\* the keys that are not a leaf entity's own
LeafForeignKeys(e) ==
  CASE e = "Product" -> AllKeys \ ProductAggregateKeys
    [] e = "Especificacion" -> AllKeys \ {"catalog:specs:c1", "catalog:full"}
    [] e = "SalesNote" -> AllKeys \ {"sales:stats", "sales:recent:50"}
    [] e = "ServiceRequest" -> AllKeys \ {"service:stats", "service:recent:20"}

(***************************************************************************)
(* C15: a mutation of a leaf entity (Product, Especificacion, SalesNote,   *)
(* ServiceRequest) removes only that entity's own keys: every key of       *)
(* another entity that was in a primary tier is still there afterwards.    *)
(***************************************************************************)
C15_LeafEntityKeepsOtherKeys ==
  [][\A e \in {"Product", "Especificacion", "SalesNote", "ServiceRequest"} :
       MutationOf(e) =>
         \A s \in Svcs : \A k \in LeafForeignKeys(e) :
           Has(prim[s], k) => Has(prim'[s], k)]_vars

\* the step is the return of clearCache(pat) on a service with a secondary tier
ClearReturns(pat) ==
  Completes /\ redisOn /\ answer'.op = "clear" /\ answer'.key = pat

\* in the secondary tier the keys matching pat are gone and the others are
\* as they were
MatchingDeleted(pat) ==
  \A k \in AllKeys :
    IF Matches(pat, k) THEN ~SecHas(sec'[k], now) ELSE sec'[k] = sec[k]

(***************************************************************************)
(* C16 as stated: clearCache(pattern) leaves the primary tier of the       *)
(* service empty, and when it returns exactly the keys matching the        *)
(* pattern have been deleted from the secondary tier.                      *)
(***************************************************************************)
C16_ClearDeletesMatching ==
  [][\A pat \in OpPatterns :
       /\ CallsClear(pat) => prim'["product"] = <<>> /\ sec' = sec
       /\ ClearReturns(pat) =>
            prim'["product"] = <<>> /\ MatchingDeleted(pat)]_vars

(***************************************************************************)
(* C16 amended: clearCache(pattern) leaves the primary tier of the service *)
(* empty, whatever the pattern; when the secondary tier has answered its   *)
(* calls, exactly the keys matching the pattern have been deleted from it  *)
(* and the other keys remain; when one of its calls has failed, the        *)
(* failure is logged and the secondary tier is as it was.                  *)
(***************************************************************************)
C16_ClearDeletesMatchingIfAnswered ==
  [][\A pat \in OpPatterns :
       /\ CallsClear(pat) => prim'["product"] = <<>> /\ sec' = sec
       /\ ClearReturns(pat) =>
            /\ prim'["product"] = <<>>
            /\ IF answer'.logged THEN sec' = sec ELSE MatchingDeleted(pat)]_vars

\* two keys were written to both tiers and products:query:* was cleared before
\* either could expire: the primary tier is empty, the matching key is gone
\* from the secondary tier and catalog:data is still there
C16_Witness ==
  /\ redisOn /\ Idle /\ now = 0
  /\ issued = 3
  /\ answer.op = "clear" /\ answer.key = "products:query:*" /\ ~answer.logged
  /\ prim["product"] = <<>>
  /\ ~SecHas(sec["products:query:e30="], now)
  /\ SecHas(sec["catalog:data"], now)

(***************************************************************************)
(* C17: when invalidateAllCaches has completed, with no concurrent write   *)
(* and a working secondary tier, no key written by any of the three        *)
(* services remains in its primary tier or in the secondary tier.          *)
(***************************************************************************)
C17_CleanSlate ==
  (issued > 0 /\ Idle) =>
    /\ \A s \in Svcs : prim[s] = <<>>
    /\ SecKeys(sec, now) = {}

(***************************************************************************)
(* C18: a hook subscription that fails is isolated: the construction of    *)
(* the CacheManager succeeds and the hooks of every other entity, those    *)
(* set up in the same group included, are registered.                      *)
(***************************************************************************)
C18_SubscriptionFailuresIsolated ==
  \A e \in Entities : models[e] = "ok" => e \in hooks

\* the data of the setCache call issued last (the calls of SpecRace carry
\* Value(1), Value(2), ... in the order of their issue)
LastWritten == Value(issued)

(***************************************************************************)
(* C19: whatever the interleaving of the setCache calls on one key and the *)
(* order in which their remote writes complete, once every issued write    *)
(* has completed the secondary tier holds for the key the value of the     *)
(* write issued last, never an older one.                                  *)
(***************************************************************************)
C19_SecondaryHoldsLastWrite ==
  (enabled /\ redisOn /\ issued > 0 /\ Idle /\ SecHas(sec[RaceKey], now)) =>
    sec[RaceKey].data = Json(LastWritten)

(***************************************************************************)
(* C20: every call of getCache, setCache, invalidateCache and clearCache   *)
(* eventually completes, even if the remote store never answers: a call    *)
(* awaiting the secondary tier does not await it forever.                  *)
(***************************************************************************)
C20_EveryCallCompletes == (pend # {}) ~> (pend = {})

\* entry e has its expiresAt in the past at time t
PastExpiry(e, t) == e.expires < t

\* the step is a call of isStale / one of delete or clear
IsIsStale == last' # last /\ last'.op = "isStale"
IsRemoval == last' # last /\ last'.op \in {"delete", "clear"}

\* the entry that a set of key k puts out of map m: the one it overwrites, and
\* the oldest one when the map is at capacity
PutOutBySet(m, max, k) == {k} \cup (KeysOf(m) \ KeysOf(Evict(m, max)))

(***************************************************************************)
(* C28: MemoryCache.get never returns a value whose expiresAt lies in the  *)
(* past: a get that finds an expired entry deletes it and returns null,    *)
(* and leaves the other entries alone.  Expiry is enforced only there: an  *)
(* expired entry stays in the map, and counts in its size, through every   *)
(* tick of the clock, every isStale, every get of another key and every    *)
(* set that neither overwrites nor evicts it.                              *)
(***************************************************************************)
C28_ExpiryOnlyOnGet ==
  [][/\ \A k \in Keys :
          IsGetOf(k) =>
            /\ last'.ret # Null =>
                 /\ Has(mem, k)
                 /\ ~PastExpiry(EntryOf(mem, k), now)
                 /\ last'.ret = EntryOf(mem, k).data
            /\ (Has(mem, k) /\ Expired(EntryOf(mem, k), now)) =>
                 /\ last'.ret = Null
                 /\ ~Has(mem', k)
                 /\ MemSize(mem') = MemSize(mem) - 1
            /\ OthersKept(mem, mem', k)
     /\ \A i \in 1..Len(mem) :
          (/\ PastExpiry(mem[i], now)
           /\ ~IsGetOf(mem[i].key)
           /\ ~IsRemoval
           /\ ~(IsSetOf(last'.key) /\ mem[i].key \in PutOutBySet(mem, maxSize, last'.key)))
          => /\ Has(mem', mem[i].key)
             /\ EntryOf(mem', mem[i].key) = mem[i]]_vars

\* an entry has expired and is still in the map, and counted, after an
\* isStale on its key and a set of another key
C28_Witness ==
  /\ Len(mem) = 2
  /\ PastExpiry(mem[1], now)
  /\ ~PastExpiry(mem[2], now)
  /\ last.op = "isStale" /\ last.key = mem[1].key
  /\ MemSize(mem) = 2

(***************************************************************************)
(* C29: MemoryCache.isStale is a pure query: whatever the state and the    *)
(* arguments, the entry being expired or not, it leaves the map as it was  *)
(* (no entry added, removed, reordered or modified), so that a later get,  *)
(* the eviction choice and the size are what they were.                    *)
(***************************************************************************)
C29_IsStaleIsPure ==
  [][IsIsStale =>
       /\ mem' = mem
       /\ MemSize(mem') = MemSize(mem)
       /\ Evict(mem', maxSize) = Evict(mem, maxSize)
       /\ \A k \in Keys : /\ MemGetValue(mem', k, now) = MemGetValue(mem, k, now)
                          /\ MemGetMap(mem', k, now) = MemGetMap(mem, k, now)]_vars

\* isStale has been called on an entry that has expired: it is still there
C29_Witness ==
  /\ last.op = "isStale"
  /\ Has(mem, last.key)
  /\ Expired(EntryOf(mem, last.key), now)
  /\ MemSize(mem) = maxSize

\* the step is a successful operation of the given kind on entity e
OperationOf(e, kind) ==
  issued' = issued + 1 /\ answer'.op = kind /\ answer'.key = e

\* the cache keys that are an entity's own
OwnKeys(e) ==
  IF e \in {"Category", "Brand", "Supplier"}
    THEN ReferencedOwnKeys(e)
    ELSE AllKeys \ LeafForeignKeys(e)

\* the step leaves the remote invalidation of key k in flight
RemoteInvalidates(k) ==
  \E c \in pend' :
    \/ c.op = "del" /\ c.key = k
    \/ c.op = "keys" /\ Matches(c.key, k)

(***************************************************************************)
(* C30: with autoInvalidate enabled and every model loadable, each of the  *)
(* seven collections has a hook for each of the seven operation kinds, so  *)
(* that each such operation is followed by the invalidation of the         *)
(* entity's keys, in the memory caches at once and in the remote store by  *)
(* calls left in flight; with autoInvalidate = false no hook is registered *)
(* and an operation changes no cache.                                      *)
(***************************************************************************)
C30_EveryKindIsHooked ==
  [][\A e \in Entities : \A kind \in SaveKinds \cup DeleteKinds :
       OperationOf(e, kind) =>
         IF auto
           THEN /\ <<e, kind>> \in Subscribed(hooks)
                /\ \A k \in OwnKeys(e) :
                     /\ \A s \in Svcs : ~Has(prim'[s], k)
                     /\ redisOn => RemoteInvalidates(k)
           ELSE /\ hooks = {}
                /\ prim' = prim /\ pend' = pend /\ sec' = sec]_vars

\* a deleteMany on the service requests has emptied the warm sales cache of
\* the service keys and sent their remote invalidation
C30_Witness ==
  /\ auto /\ redisOn
  /\ issued = 1
  /\ answer.op = "deleteMany" /\ answer.key = "ServiceRequest"
  /\ ~Has(prim["sales"], "service:stats")
  /\ Has(prim["product"], "products:all")
  /\ \E c \in pend : c.op = "del" /\ c.key = "service:stats"
  /\ SecHas(sec["service:stats"], now)

\* the step is the call of setCache(k, ...)
CallsSet(k) ==
  /\ issued' = issued + 1
  /\ \/ \E c \in pend' \ pend : c.op = "set" /\ c.key = k
     \/ pend' = pend /\ answer'.op = "set" /\ answer'.key = k

(***************************************************************************)
(* C23: isEnabled() returns the value last given to setEnabled; while it   *)
(* is false the services of the manager do not cache (setCache stores      *)
(* nothing in either tier, getCache returns null), and while it is true    *)
(* they do (setCache stores the entry in the primary tier).                *)
(***************************************************************************)
C23_SetEnabledSwitchesServices ==
  [][/\ \A b \in BOOLEAN : (mgrEnabled' = b /\ mgrEnabled # b) => IsEnabled' = b
     /\ \A k \in OpKeys :
          /\ (CallsSet(k) /\ ~IsEnabled) => prim' = prim /\ pend' = pend
          /\ (CallsSet(k) /\ IsEnabled) => Has(prim'["product"], k)
          /\ (Completes /\ ~IsEnabled /\ answer'.op = "get" /\ answer'.key = k)
               => answer'.val = Null]_vars

(***************************************************************************)
(* C21: the availability of the secondary tier is fixed at construction:   *)
(* no step changes isAvailable(), whether a remote call succeeds or fails; *)
(* while it is false no remote call is in flight and the store is not      *)
(* touched; getCacheStats reports it, and reports false for a service      *)
(* built without a redisConfig.                                            *)
(***************************************************************************)
C21_AvailabilityIsFixed ==
  [][/\ IsAvailable' = IsAvailable
     /\ redisCfg' = redisCfg
     /\ ~IsAvailable => pend' = {} /\ sec' = sec
     /\ stats' # stats =>
          /\ stats'.redis = IsAvailable
          /\ ~redisCfg => ~stats'.redis]_vars

\* a remote call has failed and been logged; the secondary tier is still
\* reported available
C21_Witness ==
  /\ IsAvailable /\ Idle
  /\ answer.logged
  /\ stats.svc = "product" /\ stats.redis
  /\ stats.size = MemSize(prim["product"]) /\ stats.size > 0

(***************************************************************************)
(* C22: across any sequence of getInstance and configure calls the         *)
(* CacheManager and its three services are created once: every caller      *)
(* holds the same manager, hence the same productService, catalogService   *)
(* and salesService, as every other caller.                                *)
(***************************************************************************)
C22_ServicesCreatedOnce ==
  /\ made <= 1
  /\ \A c1, c2 \in Callers :
       (got[c1] # 0 /\ got[c2] # 0) => got[c1] = got[c2]

\* the ttl, in seconds, an entry of the primary tier was written with (by a
\* read-through, which passes new Date() as lastModified)
TtlOf(e) == (e.expires - e.lastModified) \div MsPerSecond

\* the entries of the primary tiers under the given keys
EntriesOf(ks) ==
  {prim[s][i] : <<s, i>> \in {x \in Svcs \X (1..MaxCap) :
                               /\ x[2] <= Len(prim[x[1]])
                               /\ prim[x[1]][x[2]].key \in ks}}

(***************************************************************************)
(* C24: entries of different data types are written with different TTLs:   *)
(* product query results for 15 minutes, product search results for 10     *)
(* minutes, sales and service statistics for 30 minutes, and sales and     *)
(* stock data for a shorter time than catalog data.                        *)
(***************************************************************************)
C24_TtlPerDataType ==
  /\ \A e \in EntriesOf({"products:query:e30="}) : TtlOf(e) = QueryTtl
  /\ \A e \in EntriesOf({"products:search:tv:20"}) : TtlOf(e) = SearchTtl
  /\ \A e \in EntriesOf({"sales:stats", "service:stats"}) : TtlOf(e) = StatsTtl
  /\ \A e1 \in EntriesOf({"sales:recent:50", "products:low-stock"}) :
       \A e2 \in EntriesOf({"catalog:data"}) : TtlOf(e1) < TtlOf(e2)

\* the documents whose pre('save') hook has given them a number
NumberedNotes == {d \in NoteIds : notes.doc[d].pc \in {"insert", "stored", "rejected"}}

(***************************************************************************)
(* C25: whatever the interleaving of the saves of new documents that carry *)
(* no number, and as long as no lookup of the last document has failed,    *)
(* every document receives a number distinct from all the others, every    *)
(* save stores its document, and the numbers stored are the sequence       *)
(* last + 1 from 1 on (NV-000001, NV-000002, ...; SR-001, SR-002, ...).    *)
(***************************************************************************)
C25_NumbersDistinctAndSequential ==
  (\A d \in NoteIds : ~notes.doc[d].fellBack) =>
    /\ \A d1, d2 \in NumberedNotes :
         d1 # d2 => notes.doc[d1].number # notes.doc[d2].number
    /\ \A d \in NoteIds : notes.doc[d].pc # "rejected"
    /\ {notes.doc[d].number : d \in StoredNotes(notes)} =
         {FormatNumber(notes.kind, i) : i \in 1..Cardinality(StoredNotes(notes))}

(***************************************************************************)
(* C26: whatever the interleaving of the saves, no two distinct products   *)
(* in the collection hold the same barcode, in codigosBarras or in         *)
(* codigoBarras: a save whose barcode is held by another product fails     *)
(* and stores nothing.                                                     *)
(***************************************************************************)
C26_BarcodesUnique ==
  \A p, q \in StoredProducts(prods) :
    p # q => CodesOf(prods[p]) \cap CodesOf(prods[q]) = {}

(***************************************************************************)
(* C27: with the hooks registered, a getCategoriesWithProducts called      *)
(* after a product was created, moved to another category or deleted       *)
(* returns counts computed from the products as they are then, not the     *)
(* counts cached before the mutation.                                      *)
(***************************************************************************)
C27_CountsFollowProducts ==
  (rq.pc = "done" /\ "Product" \in hooks) => rq.out.ver = needVer[1]

(***************************************************************************)
(* C31: nothing makes the fetch of a missing key happen at most once: two  *)
(* overlapping read-through requests can both have fetched while the key   *)
(* is still missing (the witness), and every request that has fetched then *)
(* writes the key with what it fetched, whatever the other request did     *)
(* (caching enabled).                                                      *)
(***************************************************************************)
C31_EveryFetcherWrites ==
  [][\A p \in Procs :
       (IsAfterFetch(p) /\ enabled) =>
         /\ Has(mem', K)
         /\ EntryOf(mem', K).data = fetched[p]
         /\ EntryOf(mem', K).lastModified = now]_vars

\* both requests missed the key and both have fetched; the key is still missing
C31_Witness ==
  /\ enabled
  /\ \A p \in Procs : pc[p] = "fetched" /\ fetched[p] # Null
  /\ ~Has(mem, K)
  /\ redis = NoEntry

\* the step is a set call on a key that is in the Map when the call is made
IsOverwrite == sets' = sets + 1 /\ Has(mem, last'.key)

(***************************************************************************)
(* C32: a set on a key that is already present removes no other key: every *)
(* other key that was present is still present and the size is unchanged,  *)
(* also when the cache is at capacity.                                     *)
(***************************************************************************)
C32_OverwriteRemovesNothing ==
  [][IsOverwrite =>
       /\ \A k \in KeysOf(mem) : Has(mem', k)
       /\ MemSize(mem') = MemSize(mem)]_vars

(***************************************************************************)
(* C39: a set on a key that is already present leaves the key at its       *)
(* insertion position: it stays before every key it was before and after   *)
(* every key it was after, so the order of eviction is that of the first   *)
(* insertions.                                                             *)
(***************************************************************************)
C39_OverwriteKeepsPosition ==
  [][IsOverwrite =>
       \A k \in KeysOf(mem) \cap KeysOf(mem') :
         /\ Has(mem', last'.key)
         /\ (IndexOf(mem, last'.key) < IndexOf(mem, k)) =
              (IndexOf(mem', last'.key) < IndexOf(mem', k))]_vars

\* the step is: connect of p ends well / ends with the error rethrown;
\* disconnect of p ends well; the connection drops; p calls connect while
\* isConnected; p calls disconnect while not isConnected
IsConnectOk(p) == db.pc[p] = "connecting" /\ db'.pc[p] = "idle" /\ db'.out[p] = "ok"
IsConnectFail(p) == db.pc[p] = "connecting" /\ db'.pc[p] = "idle" /\ db'.out[p] = "error"
IsDisconnectOk(p) ==
  db.pc[p] = "disconnecting" /\ db'.pc[p] = "idle" /\ db'.out[p] = "ok"
IsDropped == db.up /\ ~db'.up /\ db'.pc = db.pc
IsConnectWhileConnected(p) ==
  db.pc[p] = "idle" /\ db.isConnected /\ db.out[p] # "already" /\ db'.out[p] = "already"
IsDisconnectWhileNot(p) ==
  db.pc[p] = "idle" /\ ~db.isConnected /\ db.out[p] # "noop" /\ db'.out[p] = "noop"

\* what C38 says of every step but the failed connect
StatusSteps ==
  /\ (\E p \in Procs : IsConnectOk(p)) => GetConnectionStatus'
  /\ ((\E p \in Procs : IsDisconnectOk(p)) \/ IsDropped) => ~GetConnectionStatus'
  /\ GetConnectionStatus' # GetConnectionStatus =>
       \/ \E p \in Procs : IsConnectOk(p) \/ IsDisconnectOk(p)
       \/ IsDropped
  /\ \A p \in Procs :
       (GetConnectionStatus /\ db.pc[p] = "idle") =>
         /\ db'.pc[p] # "connecting"
         /\ db'.started = db.started
  /\ \A p \in Procs :
       IsConnectWhileConnected(p) =>
         /\ db'.pc[p] = "idle"
         /\ GetConnectionStatus'
  /\ \A p \in Procs :
       IsDisconnectWhileNot(p) => db' = [db EXCEPT !.out[p] = "noop"]

C40_OneConnectAtATime ==
  /\ Cardinality({p \in Procs : db.pc[p] = "connecting"}) <= 1
  /\ db.up => \A p \in Procs : db.pc[p] # "connecting"
  /\ db.listeners <= db.established

\* the step is the answer of the findOne of the hook / the insert, for p
IsCodeFound(p) == gen.doc[p].pc = "find" /\ gen'.doc[p].attempts = gen.doc[p].attempts + 1
IsCodeInsert(p) == gen.doc[p].pc = "insert" /\ gen'.doc[p].pc # "insert"

AutoManagers == {m \in 1..made : fleet.mgr[m].auto}

(***************************************************************************)
(* C36: every construction with autoInvalidate adds the hooks of the new   *)
(* manager and none is ever removed; a mutation event runs the             *)
(* invalidation of the services of every manager constructed with          *)
(* autoInvalidate, the replaced ones included: n + 1 invalidations when    *)
(* the instance has been replaced n times, all with autoInvalidate.        *)
(***************************************************************************)
C36_HooksAccumulate ==
  [][/\ Len(fleet.regs) <= Len(fleet'.regs)
     /\ SubSeq(fleet'.regs, 1, Len(fleet.regs)) = fleet.regs
     /\ (made' = made + 1 /\ auto') => fleet'.regs = Append(fleet.regs, made')
     /\ fleet'.events = fleet.events + 1 =>
          /\ RegisteredManagers(fleet) = AutoManagers
          /\ Len(fleet.regs) = Cardinality(AutoManagers)
          /\ \A m \in ManagerIds :
               IF m \in AutoManagers
                 THEN /\ fleet'.mgr[m].invs = fleet.mgr[m].invs + 1
                      /\ ~fleet'.mgr[m].warm
                 ELSE fleet'.mgr[m] = fleet.mgr[m]
          /\ AutoManagers = 1..made =>
               Cardinality({m \in ManagerIds :
                              fleet'.mgr[m].invs = fleet.mgr[m].invs + 1})
                 = (made - 1) + 1]_vars

\* the instance was replaced until MaxManagers were constructed; one
\* mutation has then invalidated the services of every one of them
C36_Witness ==
  /\ made = MaxManagers /\ instance = MaxManagers
  /\ AutoManagers = 1..made
  /\ fleet.events = 1
  /\ \A m \in 1..made : fleet.mgr[m].invs = 1 /\ ~fleet.mgr[m].warm

(***************************************************************************)
(* C33: a value that came from the secondary tier is never what a          *)
(* read-through returns when the collection is not empty: after the probe  *)
(* found a document, the request whose cached value came through the       *)
(* secondary tier finds the key stale and goes on to fetch.                *)
(***************************************************************************)
C33_SecondaryHitRefetches ==
  [][\A p \in Procs :
       (pc[p] = "probed" /\ pc'[p] # "probed" /\ cached[p].json
          /\ latest[p] # NoDate) =>
         pc'[p] = "fetch"]_vars

\* the step is the call of the invalidate method op / ends a remote call of
\* an invalidation
IsInvalidate(op) ==
  /\ issued' = issued + 1
  /\ answer'.op = "invalidate" /\ answer'.key = op
  /\ \A c \in pend' \ pend : c.op # "get"
EndsRemoteRemoval ==
  \E c \in pend \ pend' : c.op \in {"del", "keys", "delKeys"}

(***************************************************************************)
(* C34: the call of an invalidate method removes from the memory cache of  *)
(* its service, in the step in which it is called and before it yields,    *)
(* every key it invalidates; the rest of the call (the answers of the      *)
(* remote store) changes no memory cache, so a request running in between  *)
(* never sees only part of the keys removed.                               *)
(***************************************************************************)
C34_MemoryRemovalsInOneStep ==
  [][/\ \A op \in InvalidationOps :
          IsInvalidate(op) =>
            /\ \A k \in PlanOf(op).dels : ~Has(prim'[PlanOf(op).svc], k)
            /\ \A pat \in PlanOf(op).clears :
                 \A k \in AllKeys :
                   Matches(pat, k) => ~Has(prim'[PlanOf(op).svc], k)
            /\ \A s \in Svcs \ {PlanOf(op).svc} : prim'[s] = prim[s]
     /\ EndsRemoteRemoval => prim' = prim]_vars

\* invalidateProductCache has been called on warm caches and its remote
\* calls are in flight: the memory cache of the product service is empty
C34_Witness ==
  /\ answer.op = "invalidate"
  /\ answer.key = "ProductService.invalidateProductCache"
  /\ Cardinality(pend) = 4
  /\ prim["product"] = <<>>
  /\ prim["catalog"] # <<>>

(***************************************************************************)
(* C35: no invalidate method of a service deletes, in the remote store     *)
(* shared by the three services, a key another service writes: its exact   *)
(* keys are keys of its own service, its patterns match only keys of its   *)
(* own service, and whatever a remote answer removes belongs to the        *)
(* service that asked (so nothing like a flush of the store happens).      *)
(***************************************************************************)
C35_RemoteRemovalsStayInService ==
  [][/\ \A op \in InvalidationOps :
          IsInvalidate(op) =>
            /\ PlanOf(op).dels \subseteq KeysOfSvc(PlanOf(op).svc)
            /\ \A pat \in PlanOf(op).clears :
                 \A k \in AllKeys : Matches(pat, k) => k \in KeysOfSvc(PlanOf(op).svc)
            /\ \A c \in pend' \ pend :
                 /\ c.op \in {"del", "keys"}
                 /\ c.svc = PlanOf(op).svc
     /\ EndsRemoteRemoval =>
          \A k \in AllKeys :
            sec'[k] # sec[k] =>
              \E c \in pend \ pend' : k \in KeysOfSvc(c.svc) /\ ~SecHas(sec'[k], now)]_vars

\* ProductService.invalidateCatalogCache has completed: 'catalog:data' is
\* gone from the remote store, every key of the catalog service is still there
C35_Witness ==
  /\ answer.op = "invalidate"
  /\ answer.key = "ProductService.invalidateCatalogCache"
  /\ pend = {}
  /\ redisOn
  /\ ~SecHas(sec["catalog:data"], now)
  /\ \A k \in CatalogKeys \cup SalesKeys : SecHas(sec[k], now)

====
